---- MODULE Spec2Model ----
(***************************************************************************)
(* Schema-driven configuration form of the gateway dashboard:             *)
(*   ui/src/ui/views/config-form.shared.ts  (hints, impacts, docs links)  *)
(*   ui/src/ui/views/config-form.node.ts    (renderNode and its controls) *)
(* JavaScript values are tagged records, strings are TLA+ strings, and a  *)
(* rendered template is the sequence of controls it contains.             *)
(***************************************************************************)
EXTENDS Integers, Sequences, FiniteSets, TLC

VARIABLES
    path,        \* renderNode params.path: the node the host renders
    schema,      \* renderNode params.schema
    rootValue,   \* renderNode params.rootValue: the whole config object
    hints,       \* renderNode params.hints (ConfigUiHints, insertion ordered)
    unsupported, \* renderNode params.unsupported: set of path keys
    disabled,    \* renderNode params.disabled
    view,        \* the template renderNode returned to the host
    event,       \* the DOM event last dispatched on a rendered control
    patches,     \* the onPatch calls made by the handler of that event
    resolved,    \* the hint and impacts last returned by resolveConfigImpacts
    call         \* the arguments and results of the calls of a view helper

vars == <<path, schema, rootValue, hints, unsupported, disabled, view, event,
          patches, resolved, call>>

(***************************************************************************)
(* JavaScript values.                                                      *)
(***************************************************************************)
U == [t |-> "undefined"]
Null == [t |-> "null"]
B(b) == [t |-> "boolean", v |-> b]
Num(n) == [t |-> "number", v |-> n]
S(s) == [t |-> "string", v |-> s]
A(items) == [t |-> "array", v |-> items]
O(entries) == [t |-> "object", v |-> entries]

IsString(x) == x.t = "string"
IsArray(x) == x.t = "array"
IsNullish(x) == x.t \in {"undefined", "null"}

\* Boolean(value)
Truthy(x) ==
    CASE x.t = "undefined" -> FALSE
      [] x.t = "null" -> FALSE
      [] x.t = "boolean" -> x.v
      [] x.t = "number" -> x.v # 0
      [] x.t = "string" -> x.v # ""
      [] OTHER -> TRUE

\* a ?? b
Coalesce(a, b) == IF IsNullish(a) THEN b ELSE a

\* const x = e; F(x): e is evaluated once and F applied to its value
Let(e, F(_)) == CHOOSE r \in {F(x) : x \in {e}} : TRUE

\* Path segments: a property name or an array index.
K(name) == [s |-> name]
I(index) == [n |-> index]
IsKey(seg) == "s" \in DOMAIN seg

RECURSIVE StringSegments(_)
\* path.filter((segment) => typeof segment === "string")
StringSegments(p) ==
    IF p = <<>> THEN <<>>
    ELSE IF IsKey(Head(p)) THEN <<Head(p).s>> \o StringSegments(Tail(p))
    ELSE StringSegments(Tail(p))

RECURSIVE KeyPath(_)
\* a list of names as a path of property segments
KeyPath(names) ==
    IF names = <<>> THEN <<>> ELSE <<K(Head(names))>> \o KeyPath(Tail(names))

(***************************************************************************)
(* String primitives of the runtime.                                       *)
(***************************************************************************)
RECURSIVE Join(_, _)
\* Array.prototype.join(sep)
Join(parts, sep) ==
    IF parts = <<>> THEN ""
    ELSE IF Len(parts) = 1 THEN Head(parts)
    ELSE Head(parts) \o sep \o Join(Tail(parts), sep)

RECURSIVE SplitFrom(_, _, _)
SplitFrom(str, sep, acc) ==
    IF str = "" THEN <<acc>>
    ELSE IF Head(str) = sep THEN <<acc>> \o SplitFrom(Tail(str), sep, "")
    ELSE SplitFrom(Tail(str), sep, acc \o Head(str))

\* String.prototype.split(sep), sep a single character
Split(str, sep) == SplitFrom(str, sep, "")

\* the white space the texts use: space, tab, line feed
WhiteSpace == {" ", "\t", "\n"}

RECURSIVE TrimStart(_)
TrimStart(str) ==
    IF str # "" /\ SubSeq(str, 1, 1) \in WhiteSpace
    THEN TrimStart(SubSeq(str, 2, Len(str)))
    ELSE str

RECURSIVE TrimEnd(_)
TrimEnd(str) ==
    IF str # "" /\ SubSeq(str, Len(str), Len(str)) \in WhiteSpace
    THEN TrimEnd(SubSeq(str, 1, Len(str) - 1))
    ELSE str

\* String.prototype.trim()
Trim(str) == TrimEnd(TrimStart(str))

\* String.prototype.startsWith(prefix)
StartsWith(str, prefix) ==
    Len(prefix) <= Len(str) /\ SubSeq(str, 1, Len(prefix)) = prefix

\* String.prototype.includes(sub)
Includes(str, sub) ==
    \E i \in 1..(Len(str) - Len(sub) + 1) : SubSeq(str, i, i + Len(sub) - 1) = sub

Upper == "ABCDEFGHIJKLMNOPQRSTUVWXYZ"
Lower == "abcdefghijklmnopqrstuvwxyz"

\* the position of a character in a string, 0 when it is not there
IndexOf(str, ch) ==
    IF \E i \in 1..Len(str) : SubSeq(str, i, i) = ch
    THEN CHOOSE i \in 1..Len(str) :
            SubSeq(str, i, i) = ch /\ \A j \in 1..(i - 1) : SubSeq(str, j, j) # ch
    ELSE 0

RECURSIVE ToLowerCase(_)
\* String.prototype.toLowerCase()
ToLowerCase(str) ==
    IF str = "" THEN ""
    ELSE LET at == IndexOf(Upper, Head(str))
         IN  (IF at = 0 THEN Head(str) ELSE SubSeq(Lower, at, at))
                \o ToLowerCase(Tail(str))

\* the collation order of the characters the names use
Collation == "_-.*0123456789abcdefghijklmnopqrstuvwxyz"

RECURSIVE ComparePrimary(_, _)
ComparePrimary(a, b) ==
    IF a = "" /\ b = "" THEN 0
    ELSE IF a = "" THEN -1
    ELSE IF b = "" THEN 1
    ELSE LET ra == IndexOf(Collation, Head(a))
             rb == IndexOf(Collation, Head(b))
         IN  IF ra < rb THEN -1 ELSE IF ra > rb THEN 1
             ELSE ComparePrimary(Tail(a), Tail(b))

RECURSIVE CompareCase(_, _)
CompareCase(a, b) ==
    IF a = "" \/ b = "" THEN 0
    ELSE IF Head(a) = Head(b) THEN CompareCase(Tail(a), Tail(b))
    ELSE IF IndexOf(Upper, Head(a)) = 0 THEN -1 ELSE 1

\* String.prototype.localeCompare(other): letters first without their case,
\* then lower case before upper case
localeCompare(a, b) ==
    LET primary == ComparePrimary(ToLowerCase(a), ToLowerCase(b))
    IN  IF primary # 0 THEN primary ELSE CompareCase(a, b)

\* Array.prototype.includes(x) on a list of strings
Contains(seq, x) == \E i \in 1..Len(seq) : seq[i] = x

RECURSIVE Stringify(_)
\* JSON.stringify(value) of a defined value; inside an array undefined prints as
\* null, inside an object an undefined property is left out.
Stringify(x) ==
    CASE x.t = "undefined" -> "null"
      [] x.t = "null" -> "null"
      [] x.t = "boolean" -> (IF x.v THEN "true" ELSE "false")
      [] x.t = "number" -> ToString(x.v)
      [] x.t = "string" -> "\"" \o x.v \o "\""
      [] x.t = "array" ->
            "[" \o Join([i \in 1..Len(x.v) |-> Stringify(x.v[i])], ",") \o "]"
      [] OTHER ->
            LET kept == SelectSeq(x.v, LAMBDA e : e[2].t # "undefined")
            IN  "{" \o Join([i \in 1..Len(kept) |->
                        "\"" \o kept[i][1] \o "\":" \o Stringify(kept[i][2])], ",") \o "}"

(***************************************************************************)
(* config-form.shared.ts                                                   *)
(***************************************************************************)
\* A JsonSchema with every optional member absent.
NoSchema ==
    [type |-> U, title |-> U, description |-> U, properties |-> U, items |-> U,
     additionalProperties |-> U, enum |-> U, const |-> U, default |-> U,
     anyOf |-> U, oneOf |-> U]

IsAbsent(x) == "t" \in DOMAIN x /\ x.t = "undefined"

schemaTypeWrong(sch) ==
    IF IsAbsent(sch) THEN U
    ELSE IF IsArray(sch.type) THEN
        (IF sch.type.v = <<>> THEN U ELSE sch.type.v[1])
    ELSE sch.type

\* schemaType(schema): the first non-"null" entry of a type list, else the type
schemaType(sch) ==
    IF IsAbsent(sch) THEN U
    ELSE IF IsArray(sch.type) THEN
        LET filtered == SelectSeq(sch.type.v, LAMBDA ty : ty # S("null"))
        IN  IF filtered # <<>> THEN filtered[1]
            ELSE IF sch.type.v # <<>> THEN sch.type.v[1]
            ELSE U
    ELSE sch.type

defaultValueNoDefault(sch) ==
    IF IsAbsent(sch) THEN S("")
    ELSE LET type == schemaType(sch)
         IN  CASE type = S("object") -> O(<<>>)
               [] type = S("array") -> A(<<>>)
               [] type = S("boolean") -> B(FALSE)
               [] type = S("number") -> Num(0)
               [] type = S("integer") -> Num(0)
               [] OTHER -> S("")

\* defaultValue(schema)
defaultValue(sch) ==
    IF IsAbsent(sch) THEN S("")
    ELSE IF sch.default # U THEN sch.default
    ELSE LET type == schemaType(sch)
         IN  CASE type = S("object") -> O(<<>>)
               [] type = S("array") -> A(<<>>)
               [] type = S("boolean") -> B(FALSE)
               [] type = S("number") -> Num(0)
               [] type = S("integer") -> Num(0)
               [] type = S("string") -> S("")
               [] OTHER -> S("")

pathKeyWithIndices(p) ==
    Join([i \in 1..Len(p) |-> IF IsKey(p[i]) THEN p[i].s ELSE ToString(p[i].n)], ".")

\* pathKey(path)
pathKey(p) == Join(StringSegments(p), ".")

\* A ConfigUiHint with every optional member absent.
NoHint ==
    [label |-> U, help |-> U, docsPath |-> U, group |-> U, order |-> U,
     advanced |-> U, sensitive |-> U, placeholder |-> U, impacts |-> U]

\* A ConfigUiHintImpact with only its message.
NoImpact ==
    [relation |-> U, when |-> U, whenValue |-> U, targetPath |-> U,
     targetWhen |-> U, targetValue |-> U, message |-> S("impact"), docsPath |-> U,
     fixValue |-> U, fixLabel |-> U]

\* hints[key]: the entry of a table (a list of <<key, hint>> in insertion
\* order, keys distinct), undefined when there is none
Entry(table, key) ==
    IF \E i \in 1..Len(table) : table[i][1] = key
    THEN table[CHOOSE i \in 1..Len(table) : table[i][1] = key][2]
    ELSE U

\* config-form.shared.ts:74-80: the segment-by-segment comparison
SegmentsMatch(hintSegments, segments) ==
    \A i \in 1..Len(segments) :
        ~(hintSegments[i] # "*" /\ hintSegments[i] # segments[i])

SegmentsMatchPrefix(hintSegments, segments) ==
    \A i \in 1..Len(segments) :
        i <= Len(hintSegments) =>
            ~(hintSegments[i] # "*" /\ hintSegments[i] # segments[i])

WildcardMatchesAnyLength(hintKey, segments) ==
    /\ Includes(hintKey, "*")
    /\ SegmentsMatchPrefix(Split(hintKey, "."), segments)

\* config-form.shared.ts:66-83: one turn of the loop over Object.entries(hints)
WildcardMatches(hintKey, segments) ==
    /\ Includes(hintKey, "*")
    /\ LET hintSegments == Split(hintKey, ".")
       IN  /\ Len(hintSegments) = Len(segments)
           /\ SegmentsMatch(hintSegments, segments)

resolveHintWildcardFirst(p, table) ==
    LET key == pathKey(p)
        segments == Split(key, ".")
        hit == {i \in 1..Len(table) : WildcardMatches(table[i][1], segments)}
    IN  IF hit # {} THEN table[CHOOSE i \in hit : \A j \in hit : i <= j][2]
        ELSE Entry(table, key)

\* resolveHint(path, hints) of the fallback-aware copy, which is hintForPath of
\* config-form.shared.ts line for line
resolveHint(p, table) ==
    LET key == pathKey(p)
        direct == Entry(table, key)
        segments == Split(key, ".")
        hit == {i \in 1..Len(table) : WildcardMatches(table[i][1], segments)}
    IN  IF direct # U THEN direct
        ELSE IF hit # {} THEN table[CHOOSE i \in hit : \A j \in hit : i <= j][2]
        ELSE U

\* hintForPath(path, hints) of config-form.shared.ts
hintForPath(p, table) == resolveHint(p, table)

\* splitPath(path)
splitPath(str) ==
    SelectSeq([i \in 1..Len(Split(str, ".")) |-> Trim(Split(str, ".")[i])],
              LAMBDA segment : segment # "")

\* cursor[segment] on an object given as its list of <<key, value>> entries
Property(obj, name) == Entry(obj.v, name)

RECURSIVE getValueAtPath(_, _)
\* getValueAtPath(value, path)
getValueAtPath(value, segments) ==
    IF segments = <<>> THEN value
    ELSE IF ~Truthy(value) \/ value.t # "object" THEN U
    ELSE getValueAtPath(Property(value, Head(segments)), Tail(segments))

resolveWildcardPathFromEnd(str, sourcePath) ==
    LET sourceSegments == StringSegments(sourcePath)
        target == splitPath(str)
        shift == Len(sourceSegments) - Len(target)
    IN  [index \in 1..Len(target) |->
            IF target[index] # "*" THEN target[index]
            ELSE IF index + shift >= 1 /\ index + shift <= Len(sourceSegments)
                 THEN sourceSegments[index + shift]
                 ELSE target[index]]

\* resolveWildcardPath(path, sourcePath)
resolveWildcardPath(str, sourcePath) ==
    LET sourceSegments == StringSegments(sourcePath)
        target == splitPath(str)
    IN  [index \in 1..Len(target) |->
            IF target[index] # "*" THEN target[index]
            ELSE IF index <= Len(sourceSegments) THEN sourceSegments[index]
            ELSE target[index]]

\* isEqual(lhs, rhs): Object.is, then the JSON texts. Two arrays or objects held
\* by the config and by a hint are never the same reference.
isEqual(lhs, rhs) ==
    IF lhs.t = rhs.t /\ lhs.t \notin {"array", "object"} /\ lhs = rhs THEN TRUE
    ELSE IF IsNullish(lhs) \/ IsNullish(rhs) THEN FALSE
    ELSE Stringify(lhs) = Stringify(rhs)

evaluateCheckLoose(value, check, expected) ==
    CASE check = S("truthy") -> Truthy(value)
      [] check = S("falsy") -> ~Truthy(value)
      [] check = S("defined") -> ~(IsNullish(value) \/ value = S(""))
      [] check = S("notDefined") -> IsNullish(value) \/ value = S("")
      [] check = S("equals") -> isEqual(value, expected)
      [] check = S("notEquals") -> ~isEqual(value, expected)
      [] check = S("includes") ->
            IF IsString(value) THEN IsString(expected) /\ Includes(value.v, expected.v)
            ELSE IF IsArray(value)
                 THEN \E i \in 1..Len(value.v) : isEqual(value.v[i], expected)
                 ELSE FALSE
      [] OTHER -> Truthy(value)

\* evaluateCheck(value, check, expected)
evaluateCheck(value, check, expected) ==
    CASE check = S("truthy") -> Truthy(value)
      [] check = S("falsy") -> ~Truthy(value)
      [] check = S("defined") -> ~(IsNullish(value) \/ value = S(""))
      [] check = S("notDefined") -> IsNullish(value) \/ value = S("")
      [] check = S("equals") -> isEqual(value, expected)
      [] check = S("notEquals") -> ~isEqual(value, expected)
      [] check = S("includes") ->
            IF IsString(value) THEN IsString(expected) /\ Includes(value.v, expected.v)
            ELSE IF IsArray(value)
                 THEN \E i \in 1..Len(value.v) : isEqual(value.v[i], expected)
                 ELSE FALSE
      [] OTHER -> FALSE

\* relationForImpact(impact)
relationForImpact(impact) == Coalesce(impact.relation, S("requires"))

\* sourceCheckForImpact(impact)
sourceCheckForImpact(impact) ==
    IF Truthy(impact.when) THEN impact.when
    ELSE IF impact.whenValue # U THEN S("equals")
    ELSE S("truthy")

\* targetCheckForImpact(impact)
targetCheckForImpact(impact) ==
    IF Truthy(impact.targetWhen) THEN impact.targetWhen
    ELSE IF impact.targetValue # U THEN S("equals")
    ELSE S("truthy")

\* config-form.shared.ts:246-248: targetPathSegments, null without a targetPath
targetPathSegmentsOf(impact, sourcePath) ==
    IF Truthy(impact.targetPath)
    THEN A(resolveWildcardPath(impact.targetPath.v, sourcePath))
    ELSE Null

impactActiveIgnoringTarget(relation, hasTarget, targetMatches) ==
    IF relation = S("risk") THEN TRUE
    ELSE IF relation = S("conflicts") THEN hasTarget
    ELSE TRUE

impactActiveSwapped(relation, hasTarget, targetMatches) ==
    IF relation = S("risk") THEN hasTarget
    ELSE IF relation = S("conflicts") THEN ~hasTarget \/ ~targetMatches
    ELSE hasTarget /\ targetMatches

\* config-form.shared.ts:260-265: active
impactActive(relation, hasTarget, targetMatches) ==
    IF relation = S("risk") THEN TRUE
    ELSE IF relation = S("conflicts") THEN hasTarget /\ targetMatches
    ELSE ~hasTarget \/ ~targetMatches

\* config-form.shared.ts:271-278: the entry pushed for an active impact
ResolvedImpact(impact, relation, targetPathSegments) ==
    [relation |-> relation,
     message |-> impact.message,
     docsPath |-> IF Truthy(impact.docsPath) THEN impact.docsPath ELSE U,
     targetPath |-> IF Truthy(targetPathSegments)
                    THEN S(Join(targetPathSegments.v, ".")) ELSE U,
     fixValue |-> impact.fixValue,
     fixLabel |-> IF Truthy(impact.fixLabel) THEN impact.fixLabel ELSE U]

resolveOneKeepingWildcards(impact, sourcePath, root) ==
    LET relation == relationForImpact(impact)
        sourceValue == getValueAtPath(root, StringSegments(sourcePath))
        targetPathSegments == targetPathSegmentsOf(impact, sourcePath)
        hasTarget == Truthy(targetPathSegments)
        targetValue == IF hasTarget THEN getValueAtPath(root, targetPathSegments.v) ELSE U
        targetMatches ==
            IF hasTarget
            THEN evaluateCheck(targetValue, targetCheckForImpact(impact), impact.targetValue)
            ELSE FALSE
    IN  IF ~evaluateCheck(sourceValue, sourceCheckForImpact(impact), impact.whenValue)
        THEN <<>>
        ELSE IF ~impactActive(relation, hasTarget, targetMatches) THEN <<>>
        ELSE <<ResolvedImpact(impact, relation, targetPathSegments)>>

\* config-form.shared.ts:239-279: one turn of the loop over the impacts, giving
\* the entries it pushes
resolveOne(impact, sourcePath, root) ==
    LET relation == relationForImpact(impact)
        sourceValue == getValueAtPath(root, StringSegments(sourcePath))
        targetPathSegments == targetPathSegmentsOf(impact, sourcePath)
        hasTarget == Truthy(targetPathSegments)
        targetValue == IF hasTarget THEN getValueAtPath(root, targetPathSegments.v) ELSE U
        targetMatches ==
            IF hasTarget
            THEN evaluateCheck(targetValue, targetCheckForImpact(impact), impact.targetValue)
            ELSE FALSE
    IN  IF ~evaluateCheck(sourceValue, sourceCheckForImpact(impact), impact.whenValue)
        THEN <<>>
        ELSE IF hasTarget /\ Contains(targetPathSegments.v, "*") THEN <<>>
        ELSE IF ~impactActive(relation, hasTarget, targetMatches) THEN <<>>
        ELSE <<ResolvedImpact(impact, relation, targetPathSegments)>>

RECURSIVE resolveAll(_, _, _)
resolveAll(impacts, sourcePath, root) ==
    IF impacts = <<>> THEN <<>>
    ELSE resolveOne(Head(impacts), sourcePath, root)
            \o resolveAll(Tail(impacts), sourcePath, root)

\* hint?.impacts ?? []
impactsOf(hint) ==
    IF hint = U \/ IsNullish(hint.impacts) THEN <<>> ELSE hint.impacts.v

\* resolveConfigImpacts({path, hints, rootValue}) of config-form.shared.ts
resolveConfigImpacts(p, table, root) ==
    resolveAll(impactsOf(hintForPath(p, table)), p, root)

(***************************************************************************)
(* The fallback-aware copy of config-form.shared.ts (src/unnamed/part_000). *)
(***************************************************************************)
BotLoopRisk ==
    [NoImpact EXCEPT
        !.relation = S("risk"), !.when = S("truthy"),
        !.message = S("Allowing bot-authored messages can create bot-to-bot reply loops. Keep mention/allowlist guardrails in place."),
        !.docsPath = S("/gateway/security")]

OpenDmRequires(target) ==
    [NoImpact EXCEPT
        !.relation = S("requires"), !.when = S("equals"), !.whenValue = S("open"),
        !.targetPath = S(target), !.targetWhen = S("includes"),
        !.targetValue = S("*"),
        !.message = S("Open DM policy requires allowFrom to include \"*\"."),
        !.fixValue = A(<<S("*")>>), !.fixLabel = S("Allow all (\"*\")")]

StreamModeConflicts(target) ==
    [NoImpact EXCEPT
        !.relation = S("conflicts"), !.when = S("notEquals"), !.whenValue = S("off"),
        !.targetPath = S(target), !.targetWhen = S("truthy"),
        !.message = S("Telegram draft streaming can suppress block streaming for a reply. Use streamMode=off for block-only behavior.")]

HelpDocs(help, docs) == [NoHint EXCEPT !.help = S(help), !.docsPath = S(docs)]

FALLBACK_UI_HINTS == <<
    <<"channels.*.allowBots",
      [HelpDocs("Allow replies to bot-authored messages (default: off). Keep mention/allowlist guardrails to avoid bot loops.",
                "/gateway/configuration") EXCEPT !.impacts = A(<<BotLoopRisk>>)]>>,
    <<"channels.*.accounts.*.allowBots",
      [HelpDocs("Allow replies to bot-authored messages for this account (default: off).",
                "/gateway/configuration") EXCEPT !.impacts = A(<<BotLoopRisk>>)]>>,
    <<"channels.*.blockStreaming",
      HelpDocs("Emit completed reply chunks while generating, instead of waiting for one final message.",
               "/concepts/streaming")>>,
    <<"channels.*.accounts.*.blockStreaming",
      HelpDocs("Emit completed reply chunks while generating for this account.",
               "/concepts/streaming")>>,
    <<"channels.*.capabilities",
      HelpDocs("Optional runtime capability tags. Leave empty unless channel docs explicitly require a tag.",
               "/gateway/configuration")>>,
    <<"channels.*.accounts.*.capabilities",
      HelpDocs("Optional runtime capability tags for this account. Leave empty unless docs require one.",
               "/gateway/configuration")>>,
    <<"channels.*.dm.policy",
      [HelpDocs("DM access policy. If set to \"open\", allowFrom should include \"*\".",
                "/gateway/security")
         EXCEPT !.impacts = A(<<OpenDmRequires("channels.*.dm.allowFrom")>>)]>>,
    <<"channels.*.accounts.*.dm.policy",
      [HelpDocs("DM access policy for this account. If set to \"open\", allowFrom should include \"*\".",
                "/gateway/security")
         EXCEPT !.impacts = A(<<OpenDmRequires("channels.*.accounts.*.dm.allowFrom")>>)]>>,
    <<"channels.*.dmPolicy",
      HelpDocs("DM access policy. If set to \"open\", allowFrom should include \"*\".",
               "/gateway/security")>>,
    <<"channels.*.accounts.*.dmPolicy",
      HelpDocs("DM access policy for this account. If set to \"open\", allowFrom should include \"*\".",
               "/gateway/security")>>,
    <<"channels.telegram.streamMode",
      [NoHint EXCEPT !.docsPath = S("/concepts/streaming"),
         !.impacts = A(<<StreamModeConflicts("channels.telegram.blockStreaming")>>)]>>,
    <<"channels.telegram.accounts.*.streamMode",
      [NoHint EXCEPT !.docsPath = S("/concepts/streaming"),
         !.impacts =
            A(<<StreamModeConflicts("channels.telegram.accounts.*.blockStreaming")>>)]>> >>

\* { ...fallback, ...resolved, impacts: [...] }
MergeHints(fallback, found) ==
    [f \in DOMAIN NoHint |->
        IF f = "impacts" THEN A(impactsOf(fallback) \o impactsOf(found))
        ELSE IF found[f] # U THEN found[f] ELSE fallback[f]]

hintForPathBackendOnly(p, table) == resolveHint(p, table)

\* hintForPath(path, hints) of the fallback-aware copy
hintForPathWithFallback(p, table) ==
    LET fallback == resolveHint(p, FALLBACK_UI_HINTS)
        found == resolveHint(p, table)
    IN  IF fallback = U THEN found
        ELSE IF found = U THEN fallback
        ELSE MergeHints(fallback, found)

\* resolveConfigImpacts({path, hints, rootValue}) of the fallback-aware copy
resolveConfigImpactsWithFallback(p, table, root) ==
    resolveAll(impactsOf(hintForPathWithFallback(p, table)), p, root)

\* a variant of toDocsUrl that puts its own "/" before every path
toDocsUrlAlwaysSlash(docsPath) ==
    LET raw == IF IsNullish(docsPath) THEN "" ELSE Trim(docsPath.v)
    IN  IF raw = "" THEN Null
        ELSE IF StartsWith(raw, "http://") \/ StartsWith(raw, "https://") THEN S(raw)
        ELSE S("https://docs.openclaw.ai/" \o raw)

\* toDocsUrl(path) of config-form.shared.ts; null is Null
toDocsUrl(docsPath) ==
    LET raw == IF IsNullish(docsPath) THEN "" ELSE Trim(docsPath.v)
    IN  IF raw = "" THEN Null
        ELSE IF StartsWith(raw, "http://") \/ StartsWith(raw, "https://") THEN S(raw)
        ELSE IF ~StartsWith(raw, "/") THEN S("https://docs.openclaw.ai/" \o raw)
        ELSE S("https://docs.openclaw.ai" \o raw)

(***************************************************************************)
(* config-form.node.ts: a rendered template is the list of its controls,   *)
(* in document order.  Every control carries the path its handlers close   *)
(* over.                                                                   *)
(***************************************************************************)
\* hint?.field
HintField(hint, field) == IF hint = U THEN U ELSE hint[field]

\* config-form.node.ts:289: the path the quick-fix button patches
fixPatchPath(impact, sourcePath) == KeyPath(Split(impact.targetPath.v, "."))

\* config-form.node.ts:262-299: the entry of one resolved impact, with its
\* quick-fix button when it has a target path and a fix value
renderImpact(impact, p) ==
    <<[kind |-> "impact", path |-> p, impact |-> impact,
       guide |-> toDocsUrl(impact.docsPath)]>>
    \o (IF Truthy(impact.targetPath) /\ impact.fixValue # U
        THEN <<[kind |-> "fix", path |-> p, impact |-> impact,
                patchPath |-> fixPatchPath(impact, p), fixValue |-> impact.fixValue]>>
        ELSE <<>>)

RECURSIVE renderImpacts(_, _)
renderImpacts(impacts, p) ==
    IF impacts = <<>> THEN <<>>
    ELSE renderImpact(Head(impacts), p) \o renderImpacts(Tail(impacts), p)

\* renderFieldAssist({path, hints, rootValue, ...}): the docs link and the impacts
renderFieldAssist(p) ==
    LET docsUrl == toDocsUrl(HintField(hintForPath(p, hints), "docsPath"))
    IN  (IF Truthy(docsUrl) THEN <<[kind |-> "docs", path |-> p, href |-> docsUrl]>>
         ELSE <<>>)
        \o Let(resolveConfigImpacts(p, hints, rootValue),
                LAMBDA impacts : renderImpacts(impacts, p))

isSensitivePathCaseSensitive(p) ==
    LET key == pathKey(p)
    IN  \/ Includes(key, "token") \/ Includes(key, "password")
        \/ Includes(key, "secret") \/ Includes(key, "apikey")
        \/ (Len(key) >= 3 /\ SubSeq(key, Len(key) - 2, Len(key)) = "key")

\* isSensitivePath(path)
isSensitivePath(p) ==
    LET key == ToLowerCase(pathKey(p))
    IN  \/ Includes(key, "token") \/ Includes(key, "password")
        \/ Includes(key, "secret") \/ Includes(key, "apikey")
        \/ (Len(key) >= 3 /\ SubSeq(key, Len(key) - 2, Len(key)) = "key")

\* renderTextInput({..., inputType}): the assist, the input, the reset button
renderTextInput(sch, value, p, inputType) ==
    LET hint == hintForPath(p, hints)
        isSensitive ==
            IF IsNullish(HintField(hint, "sensitive")) THEN isSensitivePath(p)
            ELSE Truthy(hint.sensitive)
    IN  renderFieldAssist(p)
        \o <<[kind |-> "text", path |-> p, inputType |-> inputType,
              type |-> IF isSensitive THEN "password" ELSE inputType,
              value |-> Coalesce(value, S(""))]>>
        \o (IF sch.default # U
            THEN <<[kind |-> "reset", path |-> p, value |-> sch.default]>>
            ELSE <<>>)

\* renderNumberInput(params): the assist, the stepper buttons and the input
renderNumberInput(sch, value, p) ==
    LET displayValue == Coalesce(Coalesce(value, sch.default), S(""))
        numValue == IF displayValue.t = "number" THEN displayValue.v ELSE 0
    IN  renderFieldAssist(p)
        \o <<[kind |-> "number", path |-> p, numValue |-> numValue]>>

\* renderSelect({..., options}): the assist and the dropdown
renderSelect(sch, value, p, options) ==
    renderFieldAssist(p) \o <<[kind |-> "select", path |-> p, options |-> options]>>

\* config-form.node.ts:358-394 and 432-461: the assist and one button per option
renderSegmented(p, options) ==
    renderFieldAssist(p)
    \o [i \in 1..Len(options) |-> [kind |-> "segment", path |-> p, option |-> options[i]]]

\* config-form.node.ts:477-510: the toggle and the assist
renderToggle(sch, value, p) ==
    <<[kind |-> "toggle", path |-> p,
       checked |-> IF value.t = "boolean" THEN value.v
                   ELSE IF sch.default.t = "boolean" THEN sch.default.v
                   ELSE FALSE]>>
    \o renderFieldAssist(p)

\* config-form.node.ts:327-332, 523-529, 933-940: an error field, no control
renderError(p, why) == <<[kind |-> "error", path |-> p, why |-> why]>>

\* isAnySchema(schema): no member besides title, description and default
isAnySchema(sch) ==
    \A f \in DOMAIN NoSchema \ {"title", "description", "default"} : sch[f] = U

\* a schema member that holds a schema object
IsSchema(x) == "type" \in DOMAIN x

\* config-form.node.ts:829-830: hintForPath([...path, key], hints)?.order ?? 0
orderOf(p, name) ==
    LET order == HintField(hintForPath(p \o <<K(name)>>, hints), "order")
    IN  IF IsNullish(order) THEN 0 ELSE order.v

\* a comparator that looks at the names only
entryBeforeByName(p, a, b) == localeCompare(a[1], b[1]) < 0

\* config-form.node.ts:828-835: the comparator of the sort
entryBefore(p, a, b) ==
    IF orderOf(p, a[1]) # orderOf(p, b[1]) THEN orderOf(p, a[1]) < orderOf(p, b[1])
    ELSE localeCompare(a[1], b[1]) < 0

RECURSIVE insertSorted(_, _, _)
insertSorted(p, entry, sorted) ==
    IF sorted = <<>> THEN <<entry>>
    ELSE IF entryBefore(p, entry, Head(sorted)) THEN <<entry>> \o sorted
    ELSE <<Head(sorted)>> \o insertSorted(p, entry, Tail(sorted))

RECURSIVE toSorted(_, _)
\* entries.toSorted(comparator): a stable sort
toSorted(p, entries) ==
    IF entries = <<>> THEN <<>>
    ELSE Let(toSorted(p, SubSeq(entries, 1, Len(entries) - 1)),
             LAMBDA sorted : insertSorted(p, entries[Len(entries)], sorted))

groupOfCaseSensitive(p, name) ==
    LET propHint == hintForPath(p \o <<K(name)>>, hints)
        group == HintField(propHint, "group")
        rawGroup == IF IsNullish(group) THEN "" ELSE Trim(group.v)
        isAdvanced == HintField(propHint, "advanced")
        groupLabel == IF rawGroup # "" THEN rawGroup
                      ELSE IF Truthy(isAdvanced) THEN "Advanced" ELSE "General"
        advanced == isAdvanced = B(TRUE) \/ ToLowerCase(groupLabel) = "advanced"
    IN  [label |-> groupLabel, advanced |-> advanced,
         key |-> (IF advanced THEN "1" ELSE "0") \o ":" \o groupLabel]

\* config-form.node.ts:726-732: the group of one property
groupOf(p, name) ==
    LET propHint == hintForPath(p \o <<K(name)>>, hints)
        group == HintField(propHint, "group")
        rawGroup == IF IsNullish(group) THEN "" ELSE Trim(group.v)
        isAdvanced == HintField(propHint, "advanced")
        groupLabel == IF rawGroup # "" THEN rawGroup
                      ELSE IF Truthy(isAdvanced) THEN "Advanced" ELSE "General"
        advanced == isAdvanced = B(TRUE) \/ ToLowerCase(groupLabel) = "advanced"
    IN  [label |-> groupLabel, advanced |-> advanced,
         key |-> (IF advanced THEN "1" ELSE "0") \o ":" \o ToLowerCase(groupLabel)]

\* config-form.node.ts:733-743: the entry joins the group of its key, or
\* opens a new group after the others
addToGroups(groups, g, entry) ==
    IF \E i \in 1..Len(groups) : groups[i].key = g.key
    THEN [i \in 1..Len(groups) |->
            IF groups[i].key = g.key
            THEN [groups[i] EXCEPT !.entries = @ \o <<entry>>]
            ELSE groups[i]]
    ELSE groups \o <<[label |-> g.label, advanced |-> g.advanced,
                      key |-> g.key, entries |-> <<entry>>]>>

RECURSIVE buildGroups(_, _, _)
\* config-form.node.ts:725-744: groups in order of first occurrence
buildGroups(p, entries, groups) ==
    IF entries = <<>> THEN groups
    ELSE Let(groupOf(p, Head(entries)[1]), LAMBDA g :
         Let(addToGroups(groups, g, Head(entries)), LAMBDA next :
            buildGroups(p, Tail(entries), next)))

\* v.type === "null" || (Array.isArray(v.type) && v.type.includes("null"))
IsNullVariant(variant) ==
    \/ variant.type = S("null")
    \/ (IsArray(variant.type)
        /\ \E i \in 1..Len(variant.type.v) : variant.type.v[i] = S("null"))

\* extractLiteral(v)
extractLiteral(variant) ==
    IF variant.const # U THEN variant.const
    ELSE IF IsArray(variant.enum) /\ Len(variant.enum.v) = 1 THEN variant.enum.v[1]
    ELSE U

\* config-form.node.ts:403-406: the normalized primitive types of the variants
normalizedTypes(variants) ==
    {IF ty = S("integer") THEN S("number") ELSE ty :
        ty \in {schemaType(variants[i]) : i \in 1..Len(variants)} \ {U, S("")}}

\* the options of a segmented control are at most this many
MaxSegmented == 5

\* value is a plain object: truthy, typeof "object", not an array
IsPlainObject(x) == x.t = "object"

RECURSIVE renderNode(_, _, _)
RECURSIVE renderObject(_, _, _)
RECURSIVE renderEntries(_, _, _)
RECURSIVE renderGroups(_, _, _)
RECURSIVE renderArray(_, _, _)
RECURSIVE renderItems(_, _, _, _)
RECURSIVE renderMapField(_, _, _, _)
RECURSIVE renderMapEntries(_, _, _, _)

\* config-form.node.ts:750-762 and 769-780: renderNode of each entry in turn
renderEntries(entries, obj, p) ==
    IF entries = <<>> THEN <<>>
    ELSE renderNode(Head(entries)[2], Property(obj, Head(entries)[1]),
                    p \o <<K(Head(entries)[1])>>)
            \o renderEntries(Tail(entries), obj, p)

\* config-form.node.ts:765-800: each group, a details element when advanced
renderGroups(groups, obj, p) ==
    IF groups = <<>> THEN <<>>
    ELSE <<[kind |-> "group", path |-> p, label |-> Head(groups).label,
            advanced |-> Head(groups).advanced,
            element |-> IF Head(groups).advanced THEN "details" ELSE "section",
            open |-> ~Head(groups).advanced]>>
            \o renderEntries(Head(groups).entries, obj, p)
            \o renderGroups(Tail(groups), obj, p)

\* renderObjectFields({entries, obj, path, ...})
renderObjectFields(entries, obj, p) ==
    Let(buildGroups(p, entries, <<>>), LAMBDA groups :
        LET useGroupedPresentation ==
                \/ Len(groups) > 1
                \/ \E i \in 1..Len(groups) :
                        groups[i].advanced \/ groups[i].label # "General"
        IN  IF ~useGroupedPresentation
            THEN IF groups # <<>> THEN renderEntries(groups[1].entries, obj, p)
                 ELSE renderEntries(entries, obj, p)
            ELSE renderGroups(groups, obj, p))

defaultOpenWhateverTheHint(p, hint) == Len(p) <= 2

\* config-form.node.ts:876: defaultOpen
defaultOpen(p, hint) == Len(p) <= 2 /\ HintField(hint, "advanced") # B(TRUE)

\* renderObject(params)
renderObject(sch, value, p) ==
    LET hint == hintForPath(p, hints)
        fallback == Coalesce(value, sch.default)
        obj == IF IsPlainObject(fallback) THEN fallback ELSE O(<<>>)
        props == IF IsNullish(sch.properties) THEN <<>> ELSE sch.properties.v
        sorted == toSorted(p, props)
        reserved == {props[i][1] : i \in 1..Len(props)}
        additional == sch.additionalProperties
        allowExtra == IsSchema(additional)
    IN  <<[kind |-> "object", path |-> p, collapsible |-> Len(p) # 1,
           open |-> IF Len(p) = 1 THEN TRUE ELSE defaultOpen(p, hint)]>>
        \o Let(sorted, LAMBDA entries :
                Let(obj, LAMBDA record : renderObjectFields(entries, record, p)))
        \o (IF allowExtra
            THEN Let(obj, LAMBDA record : renderMapField(additional, record, p, reserved))
            ELSE <<>>)

\* config-form.node.ts:975-1009: the remove button and the node of each item
renderItems(itemsSchema, arr, p, idx) ==
    IF idx > Len(arr) THEN <<>>
    ELSE <<[kind |-> "arrayRemove", path |-> p, arr |-> arr, idx |-> idx - 1]>>
            \o renderNode(itemsSchema, arr[idx], p \o <<I(idx - 1)>>)
            \o renderItems(itemsSchema, arr, p, idx + 1)

\* renderArray(params)
renderArray(sch, value, p) ==
    LET itemsSchema ==
            IF "t" \in DOMAIN sch.items /\ IsArray(sch.items)
            THEN (IF sch.items.v = <<>> THEN U ELSE sch.items.v[1])
            ELSE sch.items
        arr == IF IsArray(value) THEN value.v
               ELSE IF IsArray(sch.default) THEN sch.default.v ELSE <<>>
    IN  IF itemsSchema = U THEN renderError(p, "Unsupported array schema. Use Raw mode.")
        ELSE <<[kind |-> "arrayAdd", path |-> p, arr |-> arr, items |-> itemsSchema]>>
                \o renderFieldAssist(p)
                \o Let(arr, LAMBDA list : renderItems(itemsSchema, list, p, 1))

\* config-form.node.ts:1077-1157: the key input, the value and the remove
\* button of each entry
renderMapEntries(sch, value, p, entries) ==
    IF entries = <<>> THEN <<>>
    ELSE LET key == Head(entries)[1]
             entryValue == Head(entries)[2]
             valuePath == p \o <<K(key)>>
         IN  <<[kind |-> "mapKey", path |-> p, value |-> value, key |-> key]>>
             \o (IF isAnySchema(sch)
                 THEN <<[kind |-> "mapJson", path |-> valuePath, value |-> entryValue]>>
                 ELSE renderNode(sch, entryValue, valuePath))
             \o <<[kind |-> "mapRemove", path |-> p, value |-> value, key |-> key]>>
             \o renderMapEntries(sch, value, p, Tail(entries))

\* renderMapField({schema, value, path, reservedKeys, ...})
renderMapField(sch, value, p, reservedKeys) ==
    LET entries == SelectSeq(value.v, LAMBDA e : e[1] \notin reservedKeys)
    IN  <<[kind |-> "mapAdd", path |-> p, value |-> value, schema |-> sch]>>
        \o renderFieldAssist(p)
        \o Let(entries, LAMBDA rest : renderMapEntries(sch, value, p, rest))

\* config-form.node.ts:335-427: a union; <<>> when no branch returns
renderUnion(sch, value, p) ==
    LET variants == (IF ~IsNullish(sch.anyOf) THEN sch.anyOf
                     ELSE IF ~IsNullish(sch.oneOf) THEN sch.oneOf ELSE A(<<>>)).v
        nonNull == SelectSeq(variants, LAMBDA v : ~IsNullVariant(v))
        literals == [i \in 1..Len(nonNull) |-> extractLiteral(nonNull[i])]
        allLiterals == \A i \in 1..Len(literals) : literals[i] # U
        types == normalizedTypes(nonNull)
    IN  IF Len(nonNull) = 1 THEN renderNode(nonNull[1], value, p)
        ELSE IF allLiterals /\ Len(literals) > 0 /\ Len(literals) <= MaxSegmented
            THEN renderSegmented(p, literals)
        ELSE IF allLiterals /\ Len(literals) > MaxSegmented
            THEN renderSelect(sch, Coalesce(value, sch.default), p, literals)
        ELSE IF types \subseteq {S("string"), S("number"), S("boolean")}
            THEN IF types = {S("boolean")}
                 THEN renderNode([sch EXCEPT !.type = S("boolean"), !.anyOf = U, !.oneOf = U],
                                 value, p)
                 ELSE IF S("string") \in types \/ S("number") \in types
                 THEN renderTextInput(sch, value, p,
                        IF S("number") \in types /\ S("string") \notin types
                        THEN "number" ELSE "text")
                 ELSE <<>>
        ELSE <<>>

renderNodeIgnoringUnsupported(sch, value, p) ==
    LET type == schemaType(sch)
        union == IF Truthy(sch.anyOf) \/ Truthy(sch.oneOf)
                 THEN renderUnion(sch, value, p) ELSE <<>>
    IN  IF union # <<>> THEN union
        ELSE IF Truthy(sch.enum) THEN
            (IF Len(sch.enum.v) <= MaxSegmented THEN renderSegmented(p, sch.enum.v)
             ELSE renderSelect(sch, Coalesce(value, sch.default), p, sch.enum.v))
        ELSE IF type = S("object") THEN renderObject(sch, value, p)
        ELSE IF type = S("array") THEN renderArray(sch, value, p)
        ELSE IF type = S("boolean") THEN renderToggle(sch, value, p)
        ELSE IF type \in {S("number"), S("integer")} THEN renderNumberInput(sch, value, p)
        ELSE IF type = S("string") THEN renderTextInput(sch, value, p, "text")
        ELSE renderError(p, "Unsupported type. Use Raw mode.")

\* renderNode(params)
renderNode(sch, value, p) ==
    LET type == schemaType(sch)
        union == IF Truthy(sch.anyOf) \/ Truthy(sch.oneOf)
                 THEN renderUnion(sch, value, p) ELSE <<>>
    IN  IF pathKey(p) \in unsupported
        THEN renderError(p, "Unsupported schema node. Use Raw mode.")
        ELSE IF union # <<>> THEN union
        ELSE IF Truthy(sch.enum) THEN
            (IF Len(sch.enum.v) <= MaxSegmented THEN renderSegmented(p, sch.enum.v)
             ELSE renderSelect(sch, Coalesce(value, sch.default), p, sch.enum.v))
        ELSE IF type = S("object") THEN renderObject(sch, value, p)
        ELSE IF type = S("array") THEN renderArray(sch, value, p)
        ELSE IF type = S("boolean") THEN renderToggle(sch, value, p)
        ELSE IF type \in {S("number"), S("integer")} THEN renderNumberInput(sch, value, p)
        ELSE IF type = S("string") THEN renderTextInput(sch, value, p, "text")
        ELSE renderError(p, "Unsupported type. Use Raw mode.")

(***************************************************************************)
(* Inputs of the impact engine.                                            *)
(***************************************************************************)
MaxItems == 1

RECURSIVE ListsOver(_, _)
\* the lists of 1..n entries drawn from a set of values
ListsOver(values, n) ==
    IF n = 0 THEN {}
    ELSE {<<e>> : e \in values}
            \cup {<<e>> \o rest : e \in values, rest \in ListsOver(values, n - 1)}

AllowFromLists == {U} \cup {A(items) : items \in ListsOver({S("*"), S("a")}, MaxItems)}

Config(policy, allowFrom, flag) ==
    O(<< <<"channels", O(<<
            <<"discord", O(<<
                <<"dm", O(<< <<"policy", policy>>, <<"allowFrom", allowFrom>> >>)>>,
                <<"allowBots", B(flag)>>,
                <<"enabled", B(~flag)>> >>)>>,
            <<"telegram", O(<<
                <<"streamMode", IF policy = S("open") THEN S("partial") ELSE S("off")>>,
                <<"blockStreaming", B(flag)>> >>)>>,
            <<"my.chan", O(<< <<"allowBots", B(flag)>> >>)>> >>)>>,
        <<"list", A(<< O(<< <<"flag", B(flag)>> >>) >>)>> >>)

RootValues ==
    {O(<<>>)} \cup
    {Config(policy, allowFrom, flag) :
        policy \in {U, S("open"), S("closed")}, allowFrom \in AllowFromLists,
        flag \in BOOLEAN}

ResolvePaths ==
    {KeyPath(<<"channels", "discord", "dm", "policy">>),
     KeyPath(<<"channels", "discord", "allowBots">>),
     KeyPath(<<"channels", "telegram", "streamMode">>),
     KeyPath(<<"channels", "my.chan", "allowBots">>),
     KeyPath(<<"channels">>),
     <<K("list"), I(0), K("flag")>>}

SourceChecks ==
    {<<U, U>>, <<S("equals"), S("open")>>, <<S("notEquals"), S("off")>>}

TargetPaths ==
    {U, S(""), S("channels.*.dm.allowFrom"), S("channels.discord.enabled")}

TargetChecks == {<<U, U>>, <<S("includes"), S("*")>>, <<S("falsy"), U>>}

Relations == {U, S("requires"), S("conflicts"), S("risk")}

ImpactSpace ==
    {[NoImpact EXCEPT
        !.relation = r, !.when = sc[1], !.whenValue = sc[2], !.targetPath = tp,
        !.targetWhen = tc[1], !.targetValue = tc[2], !.message = S("backend")] :
        r \in Relations, sc \in SourceChecks, tp \in TargetPaths, tc \in TargetChecks}

\* the wildcard form of a key: its second segment replaced by "*"
Starred(key) ==
    LET segments == Split(key, ".")
    IN  Join([i \in 1..Len(segments) |-> IF i = 2 THEN "*" ELSE segments[i]], ".")

\* wildcard keys written for other fields, of the same and of other lengths
OtherKeys ==
    {"*", "channels.*", "channels.*.blockStreaming", "channels.*.dm.*",
     "*.discord.allowBots", "channels.*.chan.allowBots", "list.*.flag"}

\* backend hint tables: none, one entry for the path (exact or wildcard) with
\* an impact, or one label written under another wildcard key
HintTablesFor(p) ==
    {<<>>} \cup
    {<< <<key, [NoHint EXCEPT !.impacts = A(<<impact>>)]>> >> :
        key \in {pathKey(p), Starred(pathKey(p))}, impact \in ImpactSpace} \cup
    {<< <<key, [NoHint EXCEPT !.label = S("Other")]>> >> : key \in OtherKeys}

NotResolved == [copy |-> "none", hint |-> U, impacts |-> <<>>]

\* no view helper has been called
NoCall == [fn |-> "none"]

InitResolve ==
    /\ path \in ResolvePaths
    /\ rootValue \in RootValues
    /\ hints \in HintTablesFor(path)
    /\ resolved = NotResolved
    /\ schema = NoSchema
    /\ unsupported = {}
    /\ disabled = FALSE
    /\ view = <<>>
    /\ event = [kind |-> "none"]
    /\ patches = <<>>
    /\ call = NoCall

\* a caller evaluates resolveConfigImpacts of config-form.shared.ts
Resolve ==
    /\ resolved.copy = "none"
    /\ resolved' = [copy |-> "shared",
                    hint |-> hintForPath(path, hints),
                    impacts |-> resolveConfigImpacts(path, hints, rootValue)]
    /\ UNCHANGED <<path, schema, rootValue, hints, unsupported, disabled, view, event,
                   patches, call>>

\* a caller evaluates resolveConfigImpacts of the fallback-aware copy
ResolveWithFallback ==
    /\ resolved.copy = "none"
    /\ resolved' = [copy |-> "fallback",
                    hint |-> hintForPathWithFallback(path, hints),
                    impacts |-> resolveConfigImpactsWithFallback(path, hints, rootValue)]
    /\ UNCHANGED <<path, schema, rootValue, hints, unsupported, disabled, view, event,
                   patches, call>>

NextResolve == Resolve \/ ResolveWithFallback

SpecResolve == InitResolve /\ [][NextResolve]_vars

(***************************************************************************)
(* Properties of the impact engine, stated on the state a call leaves.     *)
(***************************************************************************)
Resolved == resolved.copy # "none"

\* the impacts of the hint the call found for the path
Applicable == impactsOf(resolved.hint)

\* the impact is among the entries the call returned
Reported(impact) ==
    \E i \in 1..Len(resolved.impacts) :
        /\ resolved.impacts[i].message = impact.message
        /\ resolved.impacts[i].relation = relationForImpact(impact)

\* the source check holds on the value read at the source path
SourceHolds(impact) ==
    evaluateCheck(getValueAtPath(rootValue, StringSegments(path)),
                  sourceCheckForImpact(impact), impact.whenValue)

HasTargetPath(impact) == Truthy(impact.targetPath)

ResolvedTarget(impact) == resolveWildcardPath(impact.targetPath.v, path)

\* the target check holds on the value read at the resolved target path
TargetHolds(impact) ==
    evaluateCheck(getValueAtPath(rootValue, ResolvedTarget(impact)),
                  targetCheckForImpact(impact), impact.targetValue)

\* a "*" of the target path is left after the substitution
WildcardLeft(impact) ==
    HasTargetPath(impact) /\ Contains(ResolvedTarget(impact), "*")

IsRequires(impact) == relationForImpact(impact) = S("requires")
IsRisk(impact) == relationForImpact(impact) = S("risk")
IsConflicts(impact) == relationForImpact(impact) = S("conflicts")

\* C1 as stated: a "requires" impact (the default relation) is reported
\* exactly when its source check holds and it has no targetPath or its target
\* check fails at the resolved target path.
C1_RequiresAsStated ==
    Resolved =>
        \A i \in 1..Len(Applicable) :
            LET impact == Applicable[i]
            IN  IsRequires(impact) =>
                    (Reported(impact) <=>
                        /\ SourceHolds(impact)
                        /\ (~HasTargetPath(impact) \/ ~TargetHolds(impact)))

\* C1 amended: a "requires" impact (the default relation) is reported exactly
\* when its source check holds, no "*" is left in its resolved target path, and
\* it has no targetPath or its target check fails at the resolved target path.
C1_RequiresReported ==
    Resolved =>
        \A i \in 1..Len(Applicable) :
            LET impact == Applicable[i]
            IN  IsRequires(impact) =>
                    (Reported(impact) <=>
                        /\ SourceHolds(impact)
                        /\ ~WildcardLeft(impact)
                        /\ (~HasTargetPath(impact) \/ ~TargetHolds(impact)))

\* C1 witness: a "requires" impact with a target is reported because the target
\* check fails, in a state whose hint also shows the satisfied case elsewhere.
C1_Witness ==
    /\ Resolved
    /\ \E i \in 1..Len(Applicable) :
        /\ IsRequires(Applicable[i])
        /\ HasTargetPath(Applicable[i])
        /\ ~WildcardLeft(Applicable[i])
        /\ SourceHolds(Applicable[i])
        /\ ~TargetHolds(Applicable[i])
        /\ Reported(Applicable[i])

\* C3 as stated: a "risk" impact is reported exactly when its source check
\* holds, whatever its target path and target value.
C3_RiskAsStated ==
    Resolved =>
        \A i \in 1..Len(Applicable) :
            IsRisk(Applicable[i]) =>
                (Reported(Applicable[i]) <=> SourceHolds(Applicable[i]))

\* C3 amended: a "risk" impact is reported exactly when its source check holds
\* and no "*" is left in its resolved target path; the target value is ignored.
C3_RiskReported ==
    Resolved =>
        \A i \in 1..Len(Applicable) :
            IsRisk(Applicable[i]) =>
                (Reported(Applicable[i]) <=>
                    SourceHolds(Applicable[i]) /\ ~WildcardLeft(Applicable[i]))

\* C3 witness: a "risk" impact is reported although its target check holds.
C3_Witness ==
    /\ Resolved
    /\ \E i \in 1..Len(Applicable) :
        /\ IsRisk(Applicable[i])
        /\ HasTargetPath(Applicable[i])
        /\ TargetHolds(Applicable[i])
        /\ Reported(Applicable[i])

\* C4 as stated: a "conflicts" impact is reported exactly when its source check
\* holds, it has a target path and the target check holds at the resolved
\* target path.
C4_ConflictsAsStated ==
    Resolved =>
        \A i \in 1..Len(Applicable) :
            IsConflicts(Applicable[i]) =>
                (Reported(Applicable[i]) <=>
                    /\ SourceHolds(Applicable[i])
                    /\ HasTargetPath(Applicable[i])
                    /\ TargetHolds(Applicable[i]))

\* C4 amended: a "conflicts" impact is reported exactly when its source check
\* holds, it has a target path in which no "*" is left after the substitution,
\* and the target check holds at the resolved target path.
C4_ConflictsReported ==
    Resolved =>
        \A i \in 1..Len(Applicable) :
            IsConflicts(Applicable[i]) =>
                (Reported(Applicable[i]) <=>
                    /\ SourceHolds(Applicable[i])
                    /\ HasTargetPath(Applicable[i])
                    /\ ~WildcardLeft(Applicable[i])
                    /\ TargetHolds(Applicable[i]))

\* C4 witness: a "conflicts" impact is reported, its target check holding.
C4_Witness ==
    /\ Resolved
    /\ \E i \in 1..Len(Applicable) :
        /\ IsConflicts(Applicable[i])
        /\ HasTargetPath(Applicable[i])
        /\ TargetHolds(Applicable[i])
        /\ Reported(Applicable[i])

\* the condition of C5, read off the two keys: as many dot-separated segments,
\* and every segment of the hint key that is not "*" equal to the path's
SameShape(hintKey, p) ==
    LET hintSegments == Split(hintKey, ".")
        pathSegments == Split(Join(StringSegments(p), "."), ".")
    IN  /\ Len(hintSegments) = Len(pathSegments)
        /\ \A i \in 1..Len(hintSegments) :
              hintSegments[i] = "*" \/ hintSegments[i] = pathSegments[i]

HasExactEntry == \E j \in 1..Len(hints) : hints[j][1] = pathKey(path)

\* C5: a hint whose key contains "*" applies to a path exactly when both keys
\* have as many dot-separated segments and every non-"*" segment of the hint
\* key equals the path's segment at its position (an exact entry, and an
\* earlier wildcard entry of the same shape, go first).
C5_WildcardApplies ==
    (Resolved /\ resolved.copy = "shared") =>
        \A i \in 1..Len(hints) :
            Includes(hints[i][1], "*") =>
                /\ (resolved.hint = hints[i][2] /\ ~HasExactEntry)
                        => SameShape(hints[i][1], path)
                /\ (/\ SameShape(hints[i][1], path)
                    /\ ~HasExactEntry
                    /\ \A j \in 1..(i - 1) :
                          ~(Includes(hints[j][1], "*") /\ SameShape(hints[j][1], path)))
                        => resolved.hint = hints[i][2]

\* C5 witness: a wildcard entry is the hint of a path of several segments, one
\* of them standing under the "*".
C5_Witness ==
    /\ Resolved /\ resolved.copy = "shared"
    /\ Len(hints) = 1 /\ Includes(hints[1][1], "*")
    /\ hints[1][1] # pathKey(path)
    /\ Len(StringSegments(path)) >= 3
    /\ resolved.hint = hints[1][2]

\* C5 witness of the other half: a wildcard entry of another length is not the
\* hint of the path.
C5_WitnessOtherLength ==
    /\ Resolved /\ resolved.copy = "shared"
    /\ Len(hints) = 1 /\ Includes(hints[1][1], "*")
    /\ Len(Split(hints[1][1], ".")) # Len(Split(pathKey(path), "."))
    /\ resolved.hint = U

\* no backend entry matches the path and a built-in fallback entry does
OnlyFallbackMatches ==
    /\ resolveHint(path, hints) = U
    /\ resolveHint(path, FALLBACK_UI_HINTS) # U

\* C6: when no backend hint matches a path, hintForPath returns the built-in
\* fallback hint matching it, so its help, docs path and impacts apply.
C6_FallbackApplies ==
    (Resolved /\ OnlyFallbackMatches) =>
        /\ resolved.hint = resolveHint(path, FALLBACK_UI_HINTS)
        /\ resolved.impacts =
              resolveAll(impactsOf(resolveHint(path, FALLBACK_UI_HINTS)), path, rootValue)

\* C6 on the fallback-aware copy alone, where it holds
C6_FallbackCopyApplies ==
    (Resolved /\ resolved.copy = "fallback" /\ OnlyFallbackMatches) =>
        /\ resolved.hint = resolveHint(path, FALLBACK_UI_HINTS)
        /\ resolved.hint.docsPath # U
        /\ resolved.impacts =
              resolveAll(impactsOf(resolveHint(path, FALLBACK_UI_HINTS)), path, rootValue)

\* C6 example: channels.discord.allowBots = true under empty backend hints,
\* resolved by the fallback-aware copy, shows the risk impact.
C6_FallbackCopyExample ==
    /\ resolved.copy = "fallback" /\ hints = <<>>
    /\ path = KeyPath(<<"channels", "discord", "allowBots">>)
    /\ Len(resolved.impacts) = 1 /\ resolved.impacts[1].relation = S("risk")
    /\ resolved.hint.docsPath = S("/gateway/configuration")

(***************************************************************************)
(* The DOM event handlers of config-form.node.ts.  Each gives the list of  *)
(* onPatch calls it makes, a call being the pair of its arguments.         *)
(***************************************************************************)
Patch(p, v) == [path |-> p, value |-> v]

NaN == [t |-> "NaN"]
Digits == "0123456789"

IsDigits(str) ==
    str # "" /\ \A i \in 1..Len(str) : IndexOf(Digits, SubSeq(str, i, i)) > 0

RECURSIVE DigitsValue(_)
DigitsValue(str) ==
    IF str = "" THEN 0
    ELSE 10 * DigitsValue(SubSeq(str, 1, Len(str) - 1))
            + IndexOf(Digits, SubSeq(str, Len(str), Len(str))) - 1

\* Number(raw) of a text of spaces, a sign and decimal digits
ToNumber(raw) ==
    LET text == Trim(raw)
    IN  IF text = "" THEN Num(0)
        ELSE IF IsDigits(text) THEN Num(DigitsValue(text))
        ELSE IF SubSeq(text, 1, 1) = "-" /\ IsDigits(SubSeq(text, 2, Len(text)))
            THEN Num(0 - DigitsValue(SubSeq(text, 2, Len(text))))
        ELSE NaN

SyntaxError == [t |-> "SyntaxError"]

\* JSON.parse(raw) of a literal, an integer, a string without escapes, {} or []
JsonParse(raw) ==
    LET text == Trim(raw)
    IN  IF text = "true" THEN B(TRUE)
        ELSE IF text = "false" THEN B(FALSE)
        ELSE IF text = "null" THEN Null
        ELSE IF text = "{}" THEN O(<<>>)
        ELSE IF text = "[]" THEN A(<<>>)
        ELSE IF text # "" /\ ToNumber(text) # NaN THEN ToNumber(text)
        ELSE IF /\ Len(text) >= 2
                /\ SubSeq(text, 1, 1) = "\""
                /\ SubSeq(text, Len(text), Len(text)) = "\""
                /\ ~Includes(SubSeq(text, 2, Len(text) - 1), "\"")
                /\ ~Includes(SubSeq(text, 2, Len(text) - 1), "\\")
            THEN S(SubSeq(text, 2, Len(text) - 1))
        ELSE SyntaxError

\* config-form.node.ts:289: the click handler of the quick-fix button
onFixClick(ctl) == <<Patch(ctl.patchPath, ctl.fixValue)>>

\* config-form.node.ts:571-583: the input handler of renderTextInput
onTextInput(p, inputType, raw) ==
    IF inputType = "number"
    THEN IF Trim(raw) = "" THEN <<Patch(p, U)>>
         ELSE <<Patch(p, IF ToNumber(raw) = NaN THEN S(raw) ELSE ToNumber(raw))>>
    ELSE <<Patch(p, S(raw))>>

onTextChangeRaw(p, inputType, raw) ==
    IF inputType = "number" THEN <<>> ELSE <<Patch(p, S(raw))>>

\* config-form.node.ts:584-590: the change handler of renderTextInput
onTextChange(p, inputType, raw) ==
    IF inputType = "number" THEN <<>> ELSE <<Patch(p, S(Trim(raw)))>>

\* config-form.node.ts:634 and 651: the click handlers of the stepper buttons
onNumberStep(p, numValue, delta) == <<Patch(p, Num(numValue + delta))>>

\* config-form.node.ts:642-646: the input handler of renderNumberInput
onNumberInput(p, raw) == <<Patch(p, IF raw = "" THEN U ELSE ToNumber(raw))>>

unset == "__unset__"

\* config-form.node.ts:690-693: the change handler of renderSelect
onSelectChange(p, options, val) ==
    <<Patch(p, IF val = unset THEN U ELSE options[ToNumber(val).v + 1])>>

\* config-form.node.ts:499: the change handler of the toggle
onToggleChange(p, checked) == <<Patch(p, B(checked))>>

\* config-form.node.ts:378 and 450: the click handler of a segmented button
onSegmentClick(p, option) == <<Patch(p, option)>>

onArrayAddFirst(p, arr, itemsSchema) ==
    <<Patch(p, A(<<defaultValue(itemsSchema)>> \o arr))>>

\* config-form.node.ts:956-959: the click handler of the Add button
onArrayAdd(p, arr, itemsSchema) ==
    <<Patch(p, A(arr \o <<defaultValue(itemsSchema)>>))>>

\* config-form.node.ts:985-989: the click handler of an item's Remove button,
\* idx counted from 0
onArrayRemove(p, arr, idx) ==
    <<Patch(p, A(SubSeq(arr, 1, idx) \o SubSeq(arr, idx + 2, Len(arr))))>>

\* key in next
HasKey(obj, key) == \E i \in 1..Len(obj.v) : obj.v[i][1] = key

\* delete next[key]
DeleteKey(obj, key) == O(SelectSeq(obj.v, LAMBDA e : e[1] # key))

\* next[key] = entryValue: in place for a key the object has, else at the end
SetKey(obj, key, entryValue) ==
    IF HasKey(obj, key)
    THEN O([i \in 1..Len(obj.v) |->
                IF obj.v[i][1] = key THEN <<key, entryValue>> ELSE obj.v[i]])
    ELSE O(obj.v \o << <<key, entryValue>> >>)

\* config-form.node.ts:1049-1054: the first of custom-1, custom-2, ... that is
\* not a key of the object
freeCustomKey(obj) ==
    LET n == CHOOSE n \in 1..(Len(obj.v) + 1) :
                /\ ~HasKey(obj, "custom-" \o ToString(n))
                /\ \A m \in 1..(n - 1) : HasKey(obj, "custom-" \o ToString(m))
    IN  "custom-" \o ToString(n)

\* config-form.node.ts:1047-1057: the click handler of the map's Add button
onMapAdd(p, value, sch) ==
    <<Patch(p, SetKey(value, freeCustomKey(value),
                      IF isAnySchema(sch) THEN O(<<>>) ELSE defaultValue(sch)))>>

\* config-form.node.ts:1089-1101: the change handler of an entry's key input
onMapKeyChange(p, value, key, raw) ==
    LET nextKey == Trim(raw)
    IN  IF nextKey = "" \/ nextKey = key THEN <<>>
        ELSE IF HasKey(value, nextKey) THEN <<>>
        ELSE <<Patch(p, DeleteKey(SetKey(value, nextKey, Property(value, key)), key))>>

\* config-form.node.ts:1114-1126: the change handler of an entry's JSON textarea
onMapJsonChange(valuePath, rawText) ==
    IF Trim(rawText) = "" THEN <<Patch(valuePath, U)>>
    ELSE IF JsonParse(Trim(rawText)) = SyntaxError THEN <<>>
    ELSE <<Patch(valuePath, JsonParse(Trim(rawText)))>>

onMapRemoveAll(p, value, key) == <<Patch(p, O(<<>>))>>

\* config-form.node.ts:1147-1151: the click handler of an entry's Remove button
onMapRemove(p, value, key) == <<Patch(p, DeleteKey(value, key))>>

(***************************************************************************)
(* The forms the host renders: one section of the root schema at a time.   *)
(***************************************************************************)
Typed(type) == [NoSchema EXCEPT !.type = S(type)]
Enum(options) == [NoSchema EXCEPT !.type = S("string"), !.enum = A(options)]
Const(literal) == [NoSchema EXCEPT !.const = literal]
ObjectOf(props) == [NoSchema EXCEPT !.type = S("object"), !.properties = O(props)]
ArrayOf(items) == [NoSchema EXCEPT !.type = S("array"), !.items = items]
MapOf(props, additional) ==
    [NoSchema EXCEPT !.type = S("object"), !.properties = O(props),
                     !.additionalProperties = additional]

GatewaySchema ==
    ObjectOf(<<
        <<"token", Typed("string")>>,
        <<"mode", Enum(<<S("local"), S("remote")>>)>>,
        <<"enabled", Typed("boolean")>>,
        <<"port", [Typed("number") EXCEPT !.default = Num(8080)]>>,
        <<"bind", [NoSchema EXCEPT
                    !.anyOf = A(<<Const(S("auto")), Const(S("lan")), Typed("null")>>)]>>,
        <<"name", [Typed("string") EXCEPT !.default = S("gw")]>>,
        <<"level", Enum(<<S("a"), S("b"), S("c"), S("d"), S("e"), S("f")>>)>>,
        <<"limit", [NoSchema EXCEPT !.anyOf = A(<<Typed("number"), Typed("integer")>>)]>>,
        <<"mixed", [NoSchema EXCEPT !.anyOf = A(<<Typed("object"), Typed("array")>>)]>>,
        <<"auth", ObjectOf(<< <<"password", Typed("string")>> >>)>>,
        <<"apiKeys", Typed("string")>>,
        <<"hotkey", Typed("string")>>,
        <<"keyboard", Typed("string")>> >>)

ListsSchema ==
    ObjectOf(<<
        <<"allowFrom", ArrayOf(Typed("string"))>>,
        <<"tags", [ArrayOf([Typed("string") EXCEPT !.default = S("new")])
                        EXCEPT !.default = A(<<S("x"), S("y")>>)]>>,
        <<"loose", Typed("array")>>,
        <<"nested", ArrayOf(A(<<ObjectOf(<< <<"flag", Typed("boolean")>> >>)>>))>> >>)

ChannelSchema ==
    ObjectOf(<<
        <<"allowBots", Typed("boolean")>>,
        <<"enabled", Typed("boolean")>>,
        <<"dm", ObjectOf(<<
            <<"policy", Enum(<<S("open"), S("closed")>>)>>,
            <<"allowFrom", ArrayOf(Typed("string"))>> >>)>> >>)

ChannelsSchema == MapOf(<<>>, ChannelSchema)

EnvSchema == MapOf(<< <<"enabled", Typed("boolean")>> >>, Typed("string"))

ExtraSchema == MapOf(<<>>, [NoSchema EXCEPT !.title = S("Anything")])

\* unions of literals and enums: of numbers and a single-value enum, of six
\* constants, of one constant beside null, of one single-value enum beside
\* null, and an enum of values of several types
ChoicesSchema ==
    ObjectOf(<<
        <<"retries", [NoSchema EXCEPT !.anyOf = A(<<
            Const(Num(1)), Const(Num(2)),
            [NoSchema EXCEPT !.enum = A(<<S("3")>>)], Typed("null")>>)]>>,
        <<"zone", [NoSchema EXCEPT !.oneOf = A(<<
            Const(S("u")), Const(S("v")), Const(S("w")), Const(S("x")),
            Const(S("y")), Const(Num(6))>>)]>>,
        <<"only", [NoSchema EXCEPT !.anyOf = A(<<Const(S("solo")), Typed("null")>>)]>>,
        <<"sole", [NoSchema EXCEPT !.anyOf = A(<<
            [NoSchema EXCEPT !.enum = A(<<S("one")>>)], Typed("null")>>)]>>,
        <<"kind", [NoSchema EXCEPT !.enum = A(<<Num(1), B(TRUE), S("1")>>)]>> >>)

Sections ==
    {<<"gateway", GatewaySchema>>, <<"lists", ListsSchema>>,
     <<"channels", ChannelsSchema>>, <<"env", EnvSchema>>, <<"extra", ExtraSchema>>,
     <<"choices", ChoicesSchema>>}

FormLists == {U, A(<<S("a")>>), A(<<S("a"), S("*"), S("b")>>)}

FormConfig(policy, allowFrom, flag) ==
    O(<< <<"channels", O(<<
            <<"discord", O(<<
                <<"dm", O(<< <<"policy", policy>>, <<"allowFrom", allowFrom>> >>)>>,
                <<"allowBots", B(flag)>>,
                <<"enabled", B(~flag)>> >>)>>,
            <<"my.chan", O(<< <<"allowBots", B(flag)>> >>)>> >>)>>,
        <<"gateway", O(<<
            <<"token", S("t0")>>, <<"mode", S("local")>>, <<"enabled", B(flag)>>,
            <<"limit", Num(3)>> >>)>>,
        <<"lists", O(<<
            <<"allowFrom", allowFrom>>,
            <<"nested", A(<< O(<< <<"flag", B(flag)>> >>) >>)>> >>)>>,
        <<"env", O(<<
            <<"FOO", S("a")>>, <<"enabled", B(flag)>>, <<"custom-1", S(" b ")>> >>)>>,
        <<"extra", O(<< <<"one", Num(1)>>, <<"two", O(<<>>)>> >>)>> >>)

FormRootValues ==
    {O(<<>>)} \cup
    {FormConfig(policy, allowFrom, flag) :
        policy \in {S("open"), S("closed")}, allowFrom \in FormLists, flag \in BOOLEAN}

\* hints with impacts: a requirement with a wildcard target and a fix, a risk
\* without target, a requirement keyed by a channel whose name holds a dot,
\* a requirement whose target is a field the form cannot edit, and impacts
\* that lack a fix value or a target path
ImpactHints ==
    << <<"channels.*.dm.policy", [NoHint EXCEPT !.impacts = A(<<
            [NoImpact EXCEPT
                !.when = S("equals"), !.whenValue = S("open"),
                !.targetPath = S("channels.*.dm.allowFrom"),
                !.targetWhen = S("includes"), !.targetValue = S("*"),
                !.message = S("open needs *"), !.fixValue = A(<<S("*")>>)] >>)]>>,
       <<"channels.*.allowBots", [NoHint EXCEPT
            !.docsPath = S("/channels"),
            !.impacts = A(<<
            [NoImpact EXCEPT
                !.relation = S("risk"), !.when = S("truthy"),
                !.message = S("bot loops")] >>)]>>,
       <<"channels.my.chan.allowBots", [NoHint EXCEPT !.impacts = A(<<
            [NoImpact EXCEPT
                !.when = S("truthy"), !.targetPath = S("channels.*.enabled"),
                !.targetWhen = S("truthy"),
                !.message = S("bots need the channel"), !.fixValue = B(TRUE)] >>)]>>,
       <<"gateway.enabled", [NoHint EXCEPT !.impacts = A(<<
            [NoImpact EXCEPT
                !.when = S("truthy"), !.targetPath = S("gateway.mixed"),
                !.targetWhen = S("truthy"),
                !.message = S("needs mixed"), !.fixValue = S("on")] >>)]>>,
       <<"gateway.mode", [NoHint EXCEPT !.impacts = A(<<
            [NoImpact EXCEPT
                !.relation = S("risk"), !.message = S("no target"),
                !.fixValue = S("remote")],
            [NoImpact EXCEPT
                !.relation = S("risk"), !.targetPath = S("gateway.token"),
                !.message = S("no fix")] >>)]>> >>

\* hints that label, order, group and mask fields
LayoutHints ==
    << <<"gateway.token", [NoHint EXCEPT !.order = Num(2), !.sensitive = B(FALSE)]>>,
       <<"gateway.name", [NoHint EXCEPT !.sensitive = B(TRUE)]>>,
       <<"gateway.port", [NoHint EXCEPT !.group = S("Network"), !.order = Num(1)]>>,
       <<"gateway.auth", [NoHint EXCEPT !.advanced = B(TRUE)]>>,
       <<"channels.discord", [NoHint EXCEPT !.advanced = B(TRUE)]>>,
       <<"lists.*", [NoHint EXCEPT !.label = S("List")]>> >>

\* hints that group fields: labels in several cases and with spaces around
\* them, a label of spaces only, advanced fields with and without a label
GroupHints ==
    << <<"gateway.token", [NoHint EXCEPT !.group = S("Security"), !.advanced = B(TRUE)]>>,
       <<"gateway.name", [NoHint EXCEPT !.group = S(" connection ")]>>,
       <<"gateway.port", [NoHint EXCEPT !.group = S("Connection")]>>,
       <<"gateway.mode", [NoHint EXCEPT !.group = S("   ")]>>,
       <<"gateway.level", [NoHint EXCEPT !.advanced = B(TRUE)]>>,
       <<"gateway.limit", [NoHint EXCEPT !.group = S("ADVANCED")]>>,
       <<"gateway.auth", [NoHint EXCEPT !.group = S("Security")]>>,
       <<"lists.*", [NoHint EXCEPT !.group = S("general")]>> >>

FormHints == {<<>>, ImpactHints, LayoutHints, GroupHints}

UnsupportedSets ==
    {{}, {"gateway.token", "gateway.auth", "lists.nested", "channels.discord.dm", "env.FOO"}}

InitForm ==
    /\ \E section \in Sections :
            /\ path = <<K(section[1])>>
            /\ schema = section[2]
    /\ rootValue \in FormRootValues
    /\ hints \in FormHints
    /\ unsupported \in UnsupportedSets
    /\ disabled \in BOOLEAN
    /\ view = <<>>
    /\ event = [kind |-> "none"]
    /\ patches = <<>>
    /\ resolved = NotResolved
    /\ call = NoCall

\* the host renders the section: renderNode with the value found at the path
Render ==
    /\ view = <<>>
    /\ view' = renderNode(schema, getValueAtPath(rootValue, StringSegments(path)), path)
    /\ UNCHANGED <<path, schema, rootValue, hints, unsupported, disabled, event, patches,
                   resolved, call>>

\* the controls of one kind in the template, by position
Controls(kind) == {i \in 1..Len(view) : view[i].kind = kind}

TextInputs == {"", "a", " a b ", "12"}
NumberTexts == {"", "7", " -3", "abc"}
JsonTexts == {"", "true", "9", "\"s\"", "{}", "{", "[]", "null"}
KeyInputs == {"", " renamed ", "FOO", "one", "two"}

\* what an event leaves as it was
Rendered ==
    <<path, schema, rootValue, hints, unsupported, disabled, view, resolved, call>>

ClickFix ==
    /\ ~disabled
    /\ \E i \in Controls("fix") :
            /\ event' = [kind |-> "fix", control |-> view[i]]
            /\ patches' = onFixClick(view[i])
    /\ UNCHANGED Rendered

InputText ==
    /\ ~disabled
    /\ \E i \in Controls("text"), raw \in TextInputs \cup NumberTexts :
            /\ event' = [kind |-> "textInput", control |-> view[i], raw |-> raw]
            /\ patches' = onTextInput(view[i].path, view[i].inputType, raw)
    /\ UNCHANGED Rendered

ChangeText ==
    /\ ~disabled
    /\ \E i \in Controls("text"), raw \in TextInputs :
            /\ event' = [kind |-> "textChange", control |-> view[i], raw |-> raw]
            /\ patches' = onTextChange(view[i].path, view[i].inputType, raw)
    /\ UNCHANGED Rendered

ClickReset ==
    /\ ~disabled
    /\ \E i \in Controls("reset") :
            /\ event' = [kind |-> "reset", control |-> view[i]]
            /\ patches' = <<Patch(view[i].path, view[i].value)>>
    /\ UNCHANGED Rendered

ClickNumberStep ==
    /\ ~disabled
    /\ \E i \in Controls("number"), delta \in {-1, 1} :
            /\ event' = [kind |-> "numberStep", control |-> view[i], delta |-> delta]
            /\ patches' = onNumberStep(view[i].path, view[i].numValue, delta)
    /\ UNCHANGED Rendered

InputNumber ==
    /\ ~disabled
    /\ \E i \in Controls("number"), raw \in NumberTexts \ {"abc"} :
            /\ event' = [kind |-> "numberInput", control |-> view[i], raw |-> raw]
            /\ patches' = onNumberInput(view[i].path, raw)
    /\ UNCHANGED Rendered

ChangeSelect ==
    /\ ~disabled
    /\ \E i \in Controls("select") :
        \E val \in {unset} \cup {ToString(n - 1) : n \in 1..Len(view[i].options)} :
            /\ event' = [kind |-> "select", control |-> view[i], val |-> val]
            /\ patches' = onSelectChange(view[i].path, view[i].options, val)
    /\ UNCHANGED Rendered

ChangeToggle ==
    /\ ~disabled
    /\ \E i \in Controls("toggle") :
            /\ event' = [kind |-> "toggle", control |-> view[i],
                         checked |-> ~view[i].checked]
            /\ patches' = onToggleChange(view[i].path, ~view[i].checked)
    /\ UNCHANGED Rendered

ClickSegment ==
    /\ ~disabled
    /\ \E i \in Controls("segment") :
            /\ event' = [kind |-> "segment", control |-> view[i]]
            /\ patches' = onSegmentClick(view[i].path, view[i].option)
    /\ UNCHANGED Rendered

ClickArrayAdd ==
    /\ ~disabled
    /\ \E i \in Controls("arrayAdd") :
            /\ event' = [kind |-> "arrayAdd", control |-> view[i]]
            /\ patches' = onArrayAdd(view[i].path, view[i].arr, view[i].items)
    /\ UNCHANGED Rendered

ClickArrayRemove ==
    /\ ~disabled
    /\ \E i \in Controls("arrayRemove") :
            /\ event' = [kind |-> "arrayRemove", control |-> view[i]]
            /\ patches' = onArrayRemove(view[i].path, view[i].arr, view[i].idx)
    /\ UNCHANGED Rendered

ClickMapAdd ==
    /\ ~disabled
    /\ \E i \in Controls("mapAdd") :
            /\ event' = [kind |-> "mapAdd", control |-> view[i]]
            /\ patches' = onMapAdd(view[i].path, view[i].value, view[i].schema)
    /\ UNCHANGED Rendered

ChangeMapKey ==
    /\ ~disabled
    /\ \E i \in Controls("mapKey"), raw \in KeyInputs :
            /\ event' = [kind |-> "mapKey", control |-> view[i], raw |-> raw]
            /\ patches' = onMapKeyChange(view[i].path, view[i].value, view[i].key, raw)
    /\ UNCHANGED Rendered

ChangeMapJson ==
    /\ ~disabled
    /\ \E i \in Controls("mapJson"), raw \in JsonTexts :
            /\ event' = [kind |-> "mapJson", control |-> view[i], raw |-> raw]
            /\ patches' = onMapJsonChange(view[i].path, raw)
    /\ UNCHANGED Rendered

ClickMapRemove ==
    /\ ~disabled
    /\ \E i \in Controls("mapRemove") :
            /\ event' = [kind |-> "mapRemove", control |-> view[i]]
            /\ patches' = onMapRemove(view[i].path, view[i].value, view[i].key)
    /\ UNCHANGED Rendered

NextForm ==
    \/ Render
    \/ ClickFix \/ InputText \/ ChangeText \/ ClickReset
    \/ ClickNumberStep \/ InputNumber \/ ChangeSelect \/ ChangeToggle \/ ClickSegment
    \/ ClickArrayAdd \/ ClickArrayRemove
    \/ ClickMapAdd \/ ChangeMapKey \/ ChangeMapJson \/ ClickMapRemove

SpecForm == InitForm /\ [][NextForm]_vars

(***************************************************************************)
(* Properties of the form: what a dispatched event patches.                *)
(***************************************************************************)
\* a is a prefix of b: the node at b is the node at a or lies below it
IsPrefix(a, b) == Len(a) <= Len(b) /\ SubSeq(b, 1, Len(a)) = a

RECURSIVE ValueAt(_, _)
\* the value a path of names and indices leads to in the config
ValueAt(value, p) ==
    IF p = <<>> THEN value
    ELSE IF IsKey(Head(p))
        THEN IF value.t = "object" THEN ValueAt(Property(value, Head(p).s), Tail(p)) ELSE U
        ELSE IF value.t = "array" /\ Head(p).n < Len(value.v)
            THEN ValueAt(value.v[Head(p).n + 1], Tail(p))
            ELSE U

\* the hint impacts that resolve to the impact a quick-fix button was rendered for
SourcesOf(ctl) ==
    LET impacts == impactsOf(hintForPath(ctl.path, hints))
    IN  {impacts[i] : i \in {j \in 1..Len(impacts) :
                                resolveOne(impacts[j], ctl.path, rootValue) = <<ctl.impact>>}}

\* the entry of an impact in the template is followed by its quick-fix button
HasFixButton(i) ==
    i < Len(view) /\ view[i + 1].kind = "fix" /\ view[i + 1].impact = view[i].impact

\* C2: for every reported impact with a targetPath and a defined fixValue the
\* quick-fix control emits exactly one patch, whose path is the segment list of
\* the impact's resolved target path and whose value is the fixValue; an impact
\* without targetPath or without fixValue has no quick-fix control.
C2_FixPatchesResolvedTarget ==
    /\ \A i \in Controls("impact") :
            HasFixButton(i) <=>
                (Truthy(view[i].impact.targetPath) /\ view[i].impact.fixValue # U)
    /\ event.kind = "fix" =>
            /\ Len(patches) = 1
            /\ patches[1].value = event.control.impact.fixValue
            /\ \E impact \in SourcesOf(event.control) :
                    patches[1].path =
                        KeyPath(resolveWildcardPath(impact.targetPath.v, event.control.path))

\* the quick fix of a field under a map key that holds a dot has been applied
C2_DottedKeyFix ==
    /\ event.kind = "fix"
    /\ event.control.path = KeyPath(<<"channels", "my.chan", "allowBots">>)
    /\ patches = <<Patch(KeyPath(<<"channels", "my", "chan", "enabled">>), B(TRUE))>>

\* the paths of the error fields of the template
ErrorPaths == {view[i].path : i \in Controls("error")}

\* array without items, or a union of non-primitive types without type or enum
OutsideSubset(sch) ==
    /\ sch.enum = U
    /\ \/ schemaType(sch) = S("array") /\ sch.items = U /\ sch.anyOf = U /\ sch.oneOf = U
       \/ /\ schemaType(sch) = U
          /\ sch.oneOf = U
          /\ sch.anyOf = U \/
                (/\ Len(sch.anyOf.v) > 1
                 /\ \A i \in 1..Len(sch.anyOf.v) :
                        schemaType(sch.anyOf.v[i]) \in {S("object"), S("array")})

\* every node that is flagged shows an error field and neither it nor anything
\* below it shows anything else
Flagged ==
    /\ \A i \in 1..Len(view) :
            pathKey(view[i].path) \in unsupported => view[i].kind = "error"
    /\ \A i \in 1..Len(view) :
            (\E q \in ErrorPaths : IsPrefix(q, view[i].path)) => view[i].kind = "error"
    /\ (view # <<>> /\ pathKey(path) \notin unsupported) =>
            \A i \in 1..Len(schema.properties.v) :
                OutsideSubset(schema.properties.v[i][2]) =>
                    path \o <<K(schema.properties.v[i][1])>> \in ErrorPaths

\* C7 as stated: a node whose path key is in the unsupported set, whose schema
\* resolves to no supported union, enum or type, or that is an array without
\* items renders as an error field without editing control, and no patch is
\* ever emitted for that node or anything below it.
C7_UnsupportedAsStated ==
    /\ Flagged
    /\ \A q \in ErrorPaths :
            \A j \in 1..Len(patches) : ~IsPrefix(q, patches[j].path)

\* C7 amended: such a node renders as an error field without editing control,
\* so no control rendered for that node or anything below it emits a patch: no
\* event is dispatched on an error field or below one (a quick fix of another
\* field may still patch the node).
C7_UnsupportedNotEdited ==
    /\ Flagged
    /\ event.kind # "none" =>
            /\ event.control.kind # "error"
            /\ \A q \in ErrorPaths : ~IsPrefix(q, event.control.path)

\* C7 witness: a node of the unsupported set, an array without items or a
\* union of no supported type shows its error field while a field beside it
\* is edited.
C7_Witness ==
    /\ \E q \in ErrorPaths : pathKey(q) \in unsupported
    /\ \E q \in ErrorPaths : pathKey(q) \notin unsupported
    /\ event.kind # "none"
    /\ patches # <<>>

\* C8: Add patches the array's own path with the current array and
\* defaultValue(items) appended at the end; Remove on index i patches it with
\* the current array without the element at i; the other elements keep their
\* values and order, the length changes by exactly one.
C8_ArrayPatches ==
    /\ event.kind \in {"arrayAdd", "arrayRemove"} =>
            /\ Len(patches) = 1
            /\ patches[1].path = event.control.path
            /\ patches[1].value.t = "array"
            /\ ValueAt(rootValue, event.control.path).t = "array" =>
                    event.control.arr = ValueAt(rootValue, event.control.path).v
    /\ event.kind = "arrayAdd" =>
            LET arr == event.control.arr
                next == patches[1].value.v
            IN  /\ Len(next) = Len(arr) + 1
                /\ \A j \in 1..Len(arr) : next[j] = arr[j]
                /\ next[Len(next)] = defaultValue(event.control.items)
    /\ event.kind = "arrayRemove" =>
            LET arr == event.control.arr
                at == event.control.idx + 1
                next == patches[1].value.v
            IN  /\ Len(next) = Len(arr) - 1
                /\ \A j \in 1..Len(next) : next[j] = IF j < at THEN arr[j] ELSE arr[j + 1]

\* C8 witness: the middle element of a three-element array has been removed.
C8_Witness ==
    /\ event.kind = "arrayRemove"
    /\ Len(event.control.arr) = 3
    /\ event.control.idx = 1
    /\ patches[1].value = A(<<event.control.arr[1], event.control.arr[3]>>)

\* an item with a schema default has been added to a non-empty array
C8_WitnessAdd ==
    /\ event.kind = "arrayAdd"
    /\ Len(event.control.arr) >= 2
    /\ event.control.items.default # U
    /\ patches[1].value.v[Len(event.control.arr) + 1] = event.control.items.default

\* C9: removing a map entry emits one patch on the containing object's path
\* whose value is the current object without that key; every other key, the
\* keys declared in schema.properties included, keeps its value.
C9_MapRemoveKeepsOthers ==
    event.kind = "mapRemove" =>
        LET obj == event.control.value
            key == event.control.key
        IN  /\ Len(patches) = 1
            /\ patches[1].path = event.control.path
            /\ patches[1].value.t = "object"
            /\ ~HasKey(patches[1].value, key)
            /\ Len(patches[1].value.v) = Len(obj.v) - 1
            /\ \A i \in 1..Len(obj.v) :
                    obj.v[i][1] # key =>
                        /\ HasKey(patches[1].value, obj.v[i][1])
                        /\ Property(patches[1].value, obj.v[i][1]) = obj.v[i][2]
            /\ ValueAt(rootValue, event.control.path).t = "object" =>
                    obj = ValueAt(rootValue, event.control.path)

\* C9 witness: an entry is removed from an object that also has a declared
\* property and another entry.
C9_Witness ==
    /\ event.kind = "mapRemove"
    /\ \E i \in 1..Len(schema.properties.v) :
            /\ HasKey(event.control.value, schema.properties.v[i][1])
            /\ HasKey(patches[1].value, schema.properties.v[i][1])
    /\ Len(patches[1].value.v) >= 2

ScalarEvents ==
    {"textInput", "textChange", "reset", "numberStep", "numberInput", "select",
     "toggle", "segment"}

\* C10: an edit of a scalar field patches exactly the field's full path from
\* the root with the new value: a text input the raw string on input and the
\* trimmed string on change, a toggle its checked state, an enum button its
\* option; these edits patch no other path.
C10_ScalarEdits ==
    /\ event.kind \in ScalarEvents =>
            /\ Len(patches) <= 1
            /\ \A j \in 1..Len(patches) : patches[j].path = event.control.path
            /\ IsPrefix(path, event.control.path)
    /\ (event.kind = "textInput" /\ event.control.inputType = "text") =>
            /\ patches = <<Patch(event.control.path, S(event.raw))>>
            /\ ~IsNullish(ValueAt(rootValue, event.control.path)) =>
                    event.control.value = ValueAt(rootValue, event.control.path)
    /\ (event.kind = "textChange" /\ event.control.inputType = "text") =>
            patches = <<Patch(event.control.path, S(Trim(event.raw)))>>
    /\ event.kind = "toggle" =>
            /\ patches = <<Patch(event.control.path, B(event.checked))>>
            /\ ValueAt(rootValue, event.control.path).t = "boolean" =>
                    event.checked = ~ValueAt(rootValue, event.control.path).v
    /\ event.kind = "segment" =>
            patches = <<Patch(event.control.path, event.control.option)>>

\* C10 witness: a nested text field is changed to a text with spaces around it.
C10_Witness ==
    /\ event.kind = "textChange"
    /\ event.control.inputType = "text"
    /\ Len(event.control.path) >= 3
    /\ event.raw = " a b "
    /\ patches = <<Patch(event.control.path, S("a b"))>>

\* a toggle below a map entry and an enum button have been used
C10_WitnessToggle ==
    /\ event.kind = "toggle"
    /\ Len(event.control.path) >= 3
    /\ patches = <<Patch(event.control.path, B(event.checked))>>

C10_WitnessSegment ==
    /\ event.kind = "segment"
    /\ patches = <<Patch(event.control.path, S("closed"))>>

(***************************************************************************)
(* Properties of the form: which control a node is rendered as.            *)
(***************************************************************************)
\* the variants of a union that are not the null type
NonNullOf(sch) ==
    LET variants == IF sch.anyOf # U THEN sch.anyOf.v
                    ELSE IF sch.oneOf # U THEN sch.oneOf.v ELSE <<>>
    IN  SelectSeq(variants, LAMBDA variant :
            ~(\/ variant.type = S("null")
              \/ (variant.type.t = "array" /\ Contains(variant.type.v, S("null")))))

IsLiteral(variant) ==
    variant.const # U \/ (variant.enum # U /\ Len(variant.enum.v) = 1)

LiteralOf(variant) == IF variant.const # U THEN variant.const ELSE variant.enum.v[1]

IsUnion(sch) == sch.anyOf # U \/ sch.oneOf # U

\* a union whose non-null variants, at least atLeast of them, are all literals
IsLiteralUnion(sch, atLeast) ==
    /\ IsUnion(sch)
    /\ Len(NonNullOf(sch)) >= atLeast
    /\ \A i \in 1..Len(NonNullOf(sch)) : IsLiteral(NonNullOf(sch)[i])

IsPlainEnum(sch) == ~IsUnion(sch) /\ sch.enum # U

\* the literals of a union of literals, the values of a plain enum
ChoiceOptions(sch) ==
    IF IsUnion(sch)
    THEN [i \in 1..Len(NonNullOf(sch)) |-> LiteralOf(NonNullOf(sch)[i])]
    ELSE sch.enum.v

\* the options the template offers at a path: the segmented buttons in order,
\* and the dropdowns
SegmentsAt(q) ==
    LET buttons == SelectSeq(view, LAMBDA c : c.kind = "segment" /\ c.path = q)
    IN  [i \in 1..Len(buttons) |-> buttons[i].option]

SelectsAt(q) == SelectSeq(view, LAMBDA c : c.kind = "select" /\ c.path = q)

\* the node at q is a choice over exactly the options
IsChoiceOver(q, options) ==
    IF Len(options) <= 5
    THEN SegmentsAt(q) = options /\ SelectsAt(q) = <<>>
    ELSE /\ SegmentsAt(q) = <<>>
         /\ Len(SelectsAt(q)) = 1
         /\ SelectsAt(q)[1].options = options

\* the properties of the rendered section that are not flagged unsupported
ShownProperties ==
    IF view = <<>> \/ pathKey(path) \in unsupported \/ schema.properties = U THEN {}
    ELSE {i \in 1..Len(schema.properties.v) :
            pathKey(path \o <<K(schema.properties.v[i][1])>>) \notin unsupported}

\* choosing an option patches the node's path with the option itself
ChoicePatchesLiteral ==
    /\ event.kind = "segment" =>
            /\ patches = <<Patch(event.control.path, event.control.option)>>
            /\ \A i \in ShownProperties :
                    event.control.path = path \o <<K(schema.properties.v[i][1])>> =>
                        Contains(ChoiceOptions(schema.properties.v[i][2]), patches[1].value)
    /\ (event.kind = "select" /\ event.val # unset) =>
            /\ Len(patches) = 1
            /\ patches[1].path = event.control.path
            /\ \A i \in ShownProperties :
                    event.control.path = path \o <<K(schema.properties.v[i][1])>> =>
                        \E n \in 1..Len(ChoiceOptions(schema.properties.v[i][2])) :
                            /\ event.val = ToString(n - 1)
                            /\ patches[1].value = ChoiceOptions(schema.properties.v[i][2])[n]

\* C11 as stated: a union whose non-null variants are all literals, and a plain
\* enum, is rendered as a choice over exactly those literals, segmented up to 5
\* options and a dropdown above; choosing an option patches the node's path with
\* the literal itself.
C11_ChoiceAsStated ==
    /\ \A i \in ShownProperties :
            LET sub == schema.properties.v[i][2]
            IN  (IsLiteralUnion(sub, 1) \/ IsPlainEnum(sub)) =>
                    IsChoiceOver(path \o <<K(schema.properties.v[i][1])>>, ChoiceOptions(sub))
    /\ ChoicePatchesLiteral

\* C11 for the unions the literal branch of renderNode is reached with: a union
\* with two or more non-null variants that are all literals, and a plain enum,
\* is rendered as a choice over exactly those
\* literals, segmented up to 5 options and a dropdown above; choosing an option
\* patches the node's path with the literal itself.
C11_ChoiceOverLiterals ==
    /\ \A i \in ShownProperties :
            LET sub == schema.properties.v[i][2]
            IN  (IsLiteralUnion(sub, 2) \/ IsPlainEnum(sub)) =>
                    IsChoiceOver(path \o <<K(schema.properties.v[i][1])>>, ChoiceOptions(sub))
    /\ ChoicePatchesLiteral

\* C11 witness: the number 6 is chosen in the dropdown of a union of six
\* constants, beside a segmented union that takes a literal from a
\* single-value enum.
C11_Witness ==
    /\ event.kind = "select"
    /\ path = <<K("choices")>>
    /\ IsUnion(schema.properties.v[2][2])
    /\ event.control.path = path \o <<K(schema.properties.v[2][1])>>
    /\ patches = <<Patch(event.control.path, Num(6))>>
    /\ SegmentsAt(path \o <<K("retries")>>) = <<Num(1), Num(2), S("3")>>

\* a plain enum button patches a number, not its string form
C11_WitnessEnum ==
    /\ event.kind = "segment"
    /\ path = <<K("choices")>>
    /\ IsPlainEnum(schema.properties.v[5][2])
    /\ event.control.path = path \o <<K(schema.properties.v[5][1])>>
    /\ patches = <<Patch(event.control.path, Num(1))>>

\* the template has been rendered and no event dispatched on it yet (events
\* leave the template as it is)
JustRendered == view # <<>> /\ event.kind = "none"

\* the property names of the rendered section
PropertyNames ==
    IF ~JustRendered \/ pathKey(path) \in unsupported \/ schema.properties = U THEN {}
    ELSE {schema.properties.v[i][1] : i \in 1..Len(schema.properties.v)}

\* the position in the template where the field of a property starts
FieldStart(name) ==
    CHOOSE i \in 1..Len(view) :
        /\ IsPrefix(path \o <<K(name)>>, view[i].path)
        /\ \A j \in 1..(i - 1) : ~IsPrefix(path \o <<K(name)>>, view[j].path)

\* the positions of the group headers of the section
GroupHeaders == {i \in Controls("group") : view[i].path = path}

\* the header the field of a property stands under, 0 when there is none
HeaderOf(name) ==
    IF \E h \in GroupHeaders : h < FieldStart(name)
    THEN CHOOSE h \in GroupHeaders :
            /\ h < FieldStart(name)
            /\ \A g \in GroupHeaders : g < FieldStart(name) => g <= h
    ELSE 0

\* the group label the hint of a property asks for
GroupLabelOf(name) ==
    LET hint == hintForPath(path \o <<K(name)>>, hints)
    IN  IF hint # U /\ hint.group # U /\ Trim(hint.group.v) # "" THEN Trim(hint.group.v)
        ELSE IF hint # U /\ hint.advanced = B(TRUE) THEN "Advanced"
        ELSE "General"

\* the group of the property is advanced
GroupAdvancedOf(name) ==
    \/ HintField(hintForPath(path \o <<K(name)>>, hints), "advanced") = B(TRUE)
    \/ ToLowerCase(GroupLabelOf(name)) = "advanced"

SameGroup(a, b) ==
    /\ GroupAdvancedOf(a) = GroupAdvancedOf(b)
    /\ ToLowerCase(GroupLabelOf(a)) = ToLowerCase(GroupLabelOf(b))

C13_NestedCollapsed ==
    JustRendered =>
        \A i \in Controls("object") :
            IF Len(view[i].path) = 1 THEN ~view[i].collapsible
            ELSE /\ view[i].collapsible
                 /\ view[i].open <=>
                        /\ Len(view[i].path) <= 2
                        /\ HintField(hintForPath(view[i].path, hints), "advanced") # B(TRUE)

\* C13 witness: the section stands without wrapper, one object at depth 2 is
\* open, one at depth 2 is closed by its advanced hint, one at depth 3 is closed.
C13_Witness ==
    /\ JustRendered
    /\ view[1].kind = "object" /\ ~view[1].collapsible
    /\ \E i \in Controls("object") : Len(view[i].path) = 2 /\ view[i].open
    /\ \E i \in Controls("object") :
            /\ Len(view[i].path) = 2 /\ ~view[i].open
            /\ hintForPath(view[i].path, hints).advanced = B(TRUE)
    /\ \E i \in Controls("object") :
            /\ Len(view[i].path) = 3 /\ view[i].collapsible /\ ~view[i].open

\* the lower-cased path key holds one of the words, or ends with "key"
LooksSecret(p) ==
    LET key == ToLowerCase(pathKey(p))
    IN  \/ \E word \in {"token", "password", "secret", "apikey"} : Includes(key, word)
        \/ \E head \in {SubSeq(key, 1, n) : n \in 0..Len(key)} : key = head \o "key"

\* the hint of the path sets sensitive to the value
HintSensitive(p, b) == HintField(hintForPath(p, hints), "sensitive") = B(b)

\* C14: a text field is masked (type password) exactly when its hint sets
\* sensitive to true, or does not set it and the lower-cased path key holds
\* "token", "password", "secret" or "apikey" or ends with "key"; sensitive=false
\* overrides the path; the patch carries the value typed, masked or not.
C14_SensitiveMasked ==
    /\ JustRendered =>
        \A i \in Controls("text") :
            /\ view[i].type = "password" <=>
                    \/ HintSensitive(view[i].path, TRUE)
                    \/ (/\ ~HintSensitive(view[i].path, TRUE)
                        /\ ~HintSensitive(view[i].path, FALSE)
                        /\ LooksSecret(view[i].path))
            /\ view[i].type # "password" => view[i].type = view[i].inputType
    /\ (event.kind = "textInput" /\ event.control.inputType = "text") =>
            patches = <<Patch(event.control.path, S(event.raw))>>
    /\ (event.kind = "textChange" /\ event.control.inputType = "text") =>
            patches = <<Patch(event.control.path, S(Trim(event.raw)))>>

\* C14 witness: text is typed into a field masked for its path, beside a field
\* masked by its hint, a field with a secret name shown by sensitive=false, and
\* a field whose name holds "key" elsewhere than at its end.
C14_Witness ==
    /\ event.kind = "textInput"
    /\ event.control.type = "password"
    /\ event.control.path = KeyPath(<<"gateway", "apiKeys">>)
    /\ patches = <<Patch(event.control.path, S("a"))>>
    /\ \E i \in Controls("text") :
            view[i].path = KeyPath(<<"gateway", "name">>) /\ view[i].type = "password"
    /\ \E i \in Controls("text") :
            view[i].path = KeyPath(<<"gateway", "token">>) /\ view[i].type = "text"
    /\ \E i \in Controls("text") :
            view[i].path = KeyPath(<<"gateway", "hotkey">>) /\ view[i].type = "password"
    /\ \E i \in Controls("text") :
            view[i].path = KeyPath(<<"gateway", "keyboard">>) /\ view[i].type = "text"

(***************************************************************************)
(* toDocsUrl: the helper is copied in config-form.shared.ts and in         *)
(* channels.shared.ts.  A call state holds the argument and the result of  *)
(* each copy, and the result of the helper applied to its own result.      *)
(***************************************************************************)
\* the form state, idle while a view helper is called on its own
formVars ==
    <<path, schema, rootValue, hints, unsupported, disabled, view, event, patches,
      resolved>>

\* the form state of a specification that renders no form
FormIdle ==
    /\ path = <<>>
    /\ schema = NoSchema
    /\ rootValue = U
    /\ hints = <<>>
    /\ unsupported = {}
    /\ disabled = FALSE
    /\ view = <<>>
    /\ event = [kind |-> "none"]
    /\ patches = <<>>
    /\ resolved = NotResolved

\* a result slot of a call that was not made yet
NotCalled == [t |-> "notCalled"]

\* toDocsUrl(path) of channels.shared.ts; null is Null
channelsToDocsUrl(docsPath) ==
    LET raw == IF IsNullish(docsPath) THEN "" ELSE Trim(docsPath.v)
    IN  IF raw = "" THEN Null
        ELSE IF StartsWith(raw, "http://") \/ StartsWith(raw, "https://") THEN S(raw)
        ELSE IF ~StartsWith(raw, "/") THEN S("https://docs.openclaw.ai/" \o raw)
        ELSE S("https://docs.openclaw.ai" \o raw)

\* docs paths: absent, or a body between leading and trailing white space
DocsBodies ==
    {"", "a", "/a", "//a", "a/b", "/", "http://x", "https://x", "http:/x",
     "HTTPS://x", "https://docs.openclaw.ai/a", "httpx", "a b"}

DocsPaths ==
    {U} \cup {S(pre \o body \o suf) :
                pre \in {"", " ", "\t"}, body \in DocsBodies, suf \in {"", " ", "\n"}}

InitDocs ==
    /\ FormIdle
    /\ \E docsPath \in DocsPaths :
            call = [fn |-> "toDocsUrl", arg |-> docsPath, form |-> NotCalled,
                    channels |-> NotCalled, again |-> NotCalled]

\* the copy of config-form.shared.ts is called
DocsUrlOfForm ==
    /\ call.form = NotCalled
    /\ call' = [call EXCEPT !.form = toDocsUrl(call.arg)]
    /\ UNCHANGED formVars

\* the copy of channels.shared.ts is called
DocsUrlOfChannels ==
    /\ call.channels = NotCalled
    /\ call' = [call EXCEPT !.channels = channelsToDocsUrl(call.arg)]
    /\ UNCHANGED formVars

\* the helper is called with its own non-null result
DocsUrlAgain ==
    /\ call.form \notin {NotCalled, Null}
    /\ call.again = NotCalled
    /\ call' = [call EXCEPT !.again = toDocsUrl(call.form)]
    /\ UNCHANGED formVars

NextDocs == DocsUrlOfForm \/ DocsUrlOfChannels \/ DocsUrlAgain

SpecDocs == InitDocs /\ [][NextDocs]_vars

\* the docs host
DocsHost == "https://docs.openclaw.ai"

\* the path without the "/" it may start with
WithoutLeadingSlash(str) ==
    IF str # "" /\ SubSeq(str, 1, 1) = "/" THEN SubSeq(str, 2, Len(str)) ELSE str

\* the trimmed argument of the call, "" when absent
DocsRaw == IF IsNullish(call.arg) THEN "" ELSE Trim(call.arg.v)

\* C15: toDocsUrl returns null for an absent, empty or white-space path, the
\* trimmed path itself when it starts with http:// or https://, and otherwise
\* the docs host, one "/", and the trimmed path less the "/" it may start
\* with; the copy of channels.shared.ts returns the same result; toDocsUrl of
\* a non-null result is that result.
C15_DocsUrl ==
    call.fn = "toDocsUrl" =>
        /\ call.form # NotCalled =>
                call.form =
                    IF DocsRaw = "" THEN Null
                    ELSE IF \/ StartsWith(DocsRaw, "http://")
                            \/ StartsWith(DocsRaw, "https://")
                         THEN S(DocsRaw)
                    ELSE S(DocsHost \o "/" \o WithoutLeadingSlash(DocsRaw))
        /\ (call.form # NotCalled /\ call.channels # NotCalled) =>
                call.form = call.channels
        /\ call.again # NotCalled => call.again = call.form

\* C15 witness: both copies were called with a padded path that starts with
\* "/", returned the host and the path with one "/" between them, and the
\* helper returned that result again.
C15_Witness ==
    /\ call.fn = "toDocsUrl"
    /\ call.arg = S(" /a\n")
    /\ call.form = S("https://docs.openclaw.ai/a")
    /\ call.channels = call.form
    /\ call.again = call.form

\* C15 witness: a path that does not start with "/" gets the same result.
C15_WitnessNoSlash ==
    /\ call.fn = "toDocsUrl"
    /\ call.arg = S("\ta")
    /\ call.form = S("https://docs.openclaw.ai/a")
    /\ call.again = call.form

(***************************************************************************)
(* channels.shared.ts: the header of a channel card.  A snapshot is Null   *)
(* or a record of channelMeta (U or an array of entries) and channelLabels *)
(* (U or an object of labels by channel id).                               *)
(***************************************************************************)
\* resolveChannelMetaMap(snapshot): the entries, a later one replacing an
\* earlier one of the same id
resolveChannelMetaMap(snapshot) ==
    IF snapshot = Null THEN <<>>
    ELSE IF snapshot.channelMeta = U THEN <<>>
    ELSE IF Len(snapshot.channelMeta.v) = 0 THEN <<>>
    ELSE snapshot.channelMeta.v

\* resolveChannelMeta(snapshot, key)
resolveChannelMeta(snapshot, key) ==
    LET map == resolveChannelMetaMap(snapshot)
        hits == {i \in DOMAIN map : map[i].id = key}
    IN  IF hits = {} THEN Null
        ELSE map[CHOOSE i \in hits : \A j \in hits : j <= i]

\* snapshot?.channelLabels?.[key]
channelLabelOf(snapshot, key) ==
    IF snapshot = Null THEN U
    ELSE IF snapshot.channelLabels = U THEN U
    ELSE LET labels == snapshot.channelLabels.v
             hits == {i \in DOMAIN labels : labels[i][1] = key}
         IN  IF hits = {} THEN U ELSE labels[CHOOSE i \in hits : TRUE][2]

\* resolveChannelLabel(snapshot, key)
resolveChannelLabel(snapshot, key) ==
    LET meta == resolveChannelMeta(snapshot, key)
        metaLabel == IF meta = Null THEN U ELSE meta.label
    IN  IF ~IsNullish(metaLabel) THEN metaLabel
        ELSE IF ~IsNullish(channelLabelOf(snapshot, key)) THEN channelLabelOf(snapshot, key)
        ELSE S(key)

\* resolveChannelDescription(snapshot, key, fallback)
resolveChannelDescription(snapshot, key, fallback) ==
    LET meta == resolveChannelMeta(snapshot, key)
        description == IF meta = Null THEN U ELSE meta.description
        trimmed == IF IsNullish(description) THEN "" ELSE Trim(description.v)
    IN  IF trimmed # "" THEN S(trimmed) ELSE S(fallback)

\* resolveChannelDocsUrl(snapshot, key)
resolveChannelDocsUrl(snapshot, key) ==
    LET meta == resolveChannelMeta(snapshot, key)
    IN  channelsToDocsUrl(IF meta = Null THEN U ELSE meta.docsPath)

\* renderChannelHeader(params): the card title, the card sub-title and the
\* target of the Guide link (Null: no link)
renderChannelHeader(snapshot, channelId, fallbackTitle, fallbackSub) ==
    LET label == resolveChannelLabel(snapshot, channelId)
    IN  [title       |-> IF IsNullish(label) THEN S(fallbackTitle) ELSE label,
         description |-> resolveChannelDescription(snapshot, channelId, fallbackSub),
         docsUrl     |-> resolveChannelDocsUrl(snapshot, channelId)]

\* the channel cards: channel id, fallbackTitle, fallbackSub
ChannelCards ==
    {<<"discord", "Discord", "Bot status and channel configuration.">>,
     <<"imessage", "iMessage", "macOS bridge status and channel configuration.">>}

\* entries of channelMeta
ChannelMetaEntries ==
    {[id |-> id, label |-> label, description |-> description, docsPath |-> docsPath] :
        id \in {"discord", "imessage"},
        label \in {U, S("Discord Bot")},
        description \in {U, S(" "), S("From the gateway")},
        docsPath \in {U, S("/channels/discord")}}

ChannelMetaLists ==
    {U, A(<<>>)} \cup {A(<<e>>) : e \in ChannelMetaEntries}
        \cup {A(<<e, f>>) : e \in {x \in ChannelMetaEntries : x.id = "discord" /\ x.docsPath = U},
                         f \in {x \in ChannelMetaEntries : x.description = U}}

ChannelLabelLists ==
    {U, O(<<>>), O(<<<<"discord", S("Discord (gateway)")>>>>),
     O(<<<<"imessage", S("Messages")>>>>)}

Snapshots ==
    {Null} \cup {[channelMeta |-> meta, channelLabels |-> labels] :
                    meta \in ChannelMetaLists, labels \in ChannelLabelLists}

InitChannels ==
    /\ FormIdle
    /\ \E snapshot \in Snapshots, card \in ChannelCards :
            call = [fn |-> "renderChannelHeader", snapshot |-> snapshot,
                    channelId |-> card[1], fallbackTitle |-> card[2],
                    fallbackSub |-> card[3], header |-> NotCalled]

\* the card renders its header
RenderChannelHeader ==
    /\ call.header = NotCalled
    /\ call' = [call EXCEPT !.header =
                    renderChannelHeader(call.snapshot, call.channelId,
                                        call.fallbackTitle, call.fallbackSub)]
    /\ UNCHANGED formVars

NextChannels == RenderChannelHeader

SpecChannels == InitChannels /\ [][NextChannels]_vars

\* the entries of channelMeta of the call that are of its channel
MetaEntriesOfCall ==
    IF call.snapshot = Null THEN {}
    ELSE IF call.snapshot.channelMeta = U THEN {}
    ELSE {i \in DOMAIN call.snapshot.channelMeta.v :
            call.snapshot.channelMeta.v[i].id = call.channelId}

\* the label of the channelMeta entry of the channel, the last one of that id
\* standing for the channel; {} when it has none
MetaLabelsOfCall ==
    {call.snapshot.channelMeta.v[i].label : i \in
        {k \in MetaEntriesOfCall :
            /\ \A j \in MetaEntriesOfCall : j <= k
            /\ call.snapshot.channelMeta.v[k].label # U}}

\* the channelLabels entry of the channel; {} when it has none
ChannelLabelsOfCall ==
    IF call.snapshot = Null THEN {}
    ELSE IF call.snapshot.channelLabels = U THEN {}
    ELSE {call.snapshot.channelLabels.v[i][2] : i \in
            {k \in DOMAIN call.snapshot.channelLabels.v :
                call.snapshot.channelLabels.v[k][1] = call.channelId}}

\* the labels the snapshot of the call provides for the channel of the call
SnapshotLabels == MetaLabelsOfCall \cup ChannelLabelsOfCall

HeaderRendered == call.fn = "renderChannelHeader" /\ call.header # NotCalled

\* C16: the card title is the caller's fallbackTitle whenever the snapshot
\* provides no label for the channel, and a label of the snapshot otherwise.
C16_FallbackTitle ==
    HeaderRendered =>
        IF SnapshotLabels = {}
        THEN call.header.title = S(call.fallbackTitle)
        ELSE call.header.title \in SnapshotLabels

\* C16, as the code has it: the title is the label of the channelMeta entry,
\* else the channelLabels entry, else the channel id.
C16_TitleOrChannelId ==
    HeaderRendered =>
        /\ MetaLabelsOfCall # {} => call.header.title \in MetaLabelsOfCall
        /\ (MetaLabelsOfCall = {} /\ ChannelLabelsOfCall # {}) =>
                call.header.title \in ChannelLabelsOfCall
        /\ SnapshotLabels = {} => call.header.title = S(call.channelId)

\* C16 witness: the Discord card renders its header without a snapshot.
C16_Witness ==
    /\ HeaderRendered
    /\ call.snapshot = Null
    /\ call.fallbackTitle = "Discord"
    /\ call.header.title = S("discord")

(***************************************************************************)
(* Hint tables of several entries: an exact key among wildcard keys, in    *)
(* every insertion order.  Each hint is labelled with its own key.         *)
(***************************************************************************)
MaxHints == 3

HintKeys ==
    {"channels.discord.allowBots", "channels.*.allowBots", "*.discord.allowBots",
     "*.*.*", "channels.*", "channels.telegram.streamMode", "channels.*.streamMode"}

HintKeyLists ==
    {keys \in UNION {[1..n -> HintKeys] : n \in 0..MaxHints} :
        \A i, j \in DOMAIN keys : i # j => keys[i] # keys[j]}

LabelledTables ==
    {[i \in DOMAIN keys |-> <<keys[i], [NoHint EXCEPT !.label = S(keys[i])]>>] :
        keys \in HintKeyLists}

HintPaths ==
    {KeyPath(<<"channels", "discord", "allowBots">>),
     KeyPath(<<"channels", "telegram", "streamMode">>),
     <<K("channels"), I(0), K("slack")>>,
     KeyPath(<<"channels">>)}

InitHints ==
    /\ path \in HintPaths
    /\ hints \in LabelledTables
    /\ rootValue = O(<<>>)
    /\ resolved = NotResolved
    /\ schema = NoSchema
    /\ unsupported = {}
    /\ disabled = FALSE
    /\ view = <<>>
    /\ event = [kind |-> "none"]
    /\ patches = <<>>
    /\ call = NoCall

SpecHints == InitHints /\ [][NextResolve]_vars

\* the wildcard key stands for the path key: as many segments, each "*" or
\* the segment of the path key at its place
KeyStandsFor(hintKey, key) ==
    /\ \E i \in 1..Len(hintKey) : SubSeq(hintKey, i, i) = "*"
    /\ Len(Split(hintKey, ".")) = Len(Split(key, "."))
    /\ \A i \in 1..Len(Split(key, ".")) :
            Split(hintKey, ".")[i] \in {"*", Split(key, ".")[i]}

\* the entries of the table with the key itself, and with a wildcard key that
\* stands for it
ExactEntries(table, key) == {i \in 1..Len(table) : table[i][1] = key}

WildcardEntries(table, key) == {i \in 1..Len(table) : KeyStandsFor(table[i][1], key)}

\* the hint the table holds for the key: the exact entry, else the first
\* wildcard entry, else undefined
HintOf(table, key) ==
    IF ExactEntries(table, key) # {}
    THEN table[CHOOSE i \in ExactEntries(table, key) : TRUE][2]
    ELSE IF WildcardEntries(table, key) # {}
    THEN table[CHOOSE i \in WildcardEntries(table, key) :
                    \A j \in WildcardEntries(table, key) : i <= j][2]
    ELSE U

\* C17: within one hint table the entry whose key equals the path key is
\* returned even when wildcard keys match too; otherwise the first matching
\* wildcard entry in insertion order; undefined when none matches.  The
\* fallback-aware copy looks up each of its two tables this way.
C17_ExactBeforeWildcard ==
    /\ resolved.copy = "shared" => resolved.hint = HintOf(hints, pathKey(path))
    /\ resolved.copy = "fallback" =>
            /\ HintOf(hints, pathKey(path)) # U =>
                    resolved.hint.label = HintOf(hints, pathKey(path)).label
            /\ HintOf(hints, pathKey(path)) = U =>
                    resolved.hint = HintOf(FALLBACK_UI_HINTS, pathKey(path))

\* C17 witness: the exact key is inserted after two wildcard keys that match
\* the path, and its hint is returned.
C17_Witness ==
    /\ resolved.copy = "shared"
    /\ path = KeyPath(<<"channels", "discord", "allowBots">>)
    /\ Len(hints) = 3
    /\ hints[1][1] = "*.*.*"
    /\ hints[2][1] = "channels.*.allowBots"
    /\ hints[3][1] = "channels.discord.allowBots"
    /\ resolved.hint.label = S("channels.discord.allowBots")

\* C17 witness: without an exact key the first of two matching wildcard keys
\* is returned, by the fallback-aware copy too.
C17_WitnessWildcard ==
    /\ resolved.copy = "fallback"
    /\ path = KeyPath(<<"channels", "discord", "allowBots">>)
    /\ Len(hints) = 3
    /\ hints[1][1] = "channels.*"
    /\ hints[2][1] = "*.discord.allowBots"
    /\ hints[3][1] = "channels.*.allowBots"
    /\ resolved.hint.label = S("*.discord.allowBots")

(***************************************************************************)
(* Impacts with wildcard target paths of several lengths, resolved from    *)
(* source paths of several lengths, one of them through an array.          *)
(***************************************************************************)
TargetSourcePaths ==
    {KeyPath(<<"channels", "discord", "accounts", "main", "dm", "policy">>),
     KeyPath(<<"channels", "discord", "dm", "policy">>),
     <<K("list"), I(0), K("a"), K("b")>>,
     KeyPath(<<"channels">>)}

WildcardTargets ==
    {S("channels.*.accounts.*.dm.allowFrom"), S("channels.*.dm.allowFrom"), S("*"),
     S("a.*.*"), S("channels.discord.enabled"), S(" channels . * . dm "),
     S("*.*.*.*.*.*.*")}

TargetImpacts ==
    {[NoImpact EXCEPT
        !.relation = r, !.when = when, !.targetPath = tp,
        !.targetWhen = tc[1], !.targetValue = tc[2], !.message = S("backend")] :
        r \in Relations, when \in {U, S("falsy")}, tp \in WildcardTargets,
        tc \in {<<U, U>>, <<S("includes"), S("*")>>}}

\* a config with the same dm block for the channel and for one of its accounts
AccountsConfig(allowFrom) ==
    LET dm == O(<< <<"policy", S("open")>>, <<"allowFrom", allowFrom>> >>)
    IN  O(<< <<"channels", O(<<
                <<"discord", O(<<
                    <<"dm", dm>>,
                    <<"accounts", O(<< <<"main", O(<< <<"dm", dm>> >>)>> >>)>> >>)>> >>)>>,
             <<"list", A(<< O(<< <<"a", O(<< <<"b", B(TRUE)>> >>)>> >>) >>)>> >>)

TargetRoots == {O(<<>>), AccountsConfig(A(<<>>)), AccountsConfig(A(<<S("*")>>))}

InitTargets ==
    /\ path \in TargetSourcePaths
    /\ rootValue \in TargetRoots
    /\ \E impact \in TargetImpacts :
            hints = << <<pathKey(path), [NoHint EXCEPT !.impacts = A(<<impact>>)]>> >>
    /\ resolved = NotResolved
    /\ schema = NoSchema
    /\ unsupported = {}
    /\ disabled = FALSE
    /\ view = <<>>
    /\ event = [kind |-> "none"]
    /\ patches = <<>>
    /\ call = NoCall

SpecTargets == InitTargets /\ [][NextResolve]_vars

\* the target path of the impact, each "*" that has a string segment of the
\* source path at its position replaced by that segment
TargetFor(impact) ==
    LET target == splitPath(impact.targetPath.v)
        source == SelectSeq(path, IsKey)
    IN  [i \in 1..Len(target) |->
            IF target[i] = "*" /\ i <= Len(source) THEN source[i].s ELSE target[i]]

\* a "*" of the target path is at a position where the source path has no
\* string segment
Unreplaceable(impact) ==
    /\ HasTargetPath(impact)
    /\ \E i \in 1..Len(splitPath(impact.targetPath.v)) :
            /\ splitPath(impact.targetPath.v)[i] = "*"
            /\ i > Len(SelectSeq(path, IsKey))

\* C18: every reported impact with a target path names the target with each
\* "*" at position i replaced by the i-th string segment of the source path;
\* an impact with a "*" that cannot be replaced is not reported, whatever its
\* relation.
C18_WildcardTarget ==
    Resolved =>
        /\ \A k \in 1..Len(resolved.impacts) :
                \E i \in 1..Len(Applicable) :
                    /\ Applicable[i].message = resolved.impacts[k].message
                    /\ IF HasTargetPath(Applicable[i])
                       THEN resolved.impacts[k].targetPath =
                                S(Join(TargetFor(Applicable[i]), "."))
                       ELSE resolved.impacts[k].targetPath = U
        /\ \A i \in 1..Len(Applicable) :
                Unreplaceable(Applicable[i]) =>
                    \A k \in 1..Len(resolved.impacts) :
                        resolved.impacts[k].message # Applicable[i].message

\* C18 witness: both "*" of an account's target path are replaced by the
\* channel and the account of the source path, and the impact is reported.
C18_Witness ==
    /\ resolved.copy = "shared"
    /\ path = KeyPath(<<"channels", "discord", "accounts", "main", "dm", "policy">>)
    /\ Len(resolved.impacts) = 1
    /\ resolved.impacts[1].message = S("backend")
    /\ resolved.impacts[1].targetPath = S("channels.discord.accounts.main.dm.allowFrom")

\* C18 witness: the string segments after an array index are counted without
\* the index.
C18_WitnessIndex ==
    /\ Resolved
    /\ path = <<K("list"), I(0), K("a"), K("b")>>
    /\ Len(resolved.impacts) = 1
    /\ resolved.impacts[1].targetPath = S("a.a.b")

\* C18 witness: a risk impact whose source check holds has a "*" past the end
\* of the source path and is not reported.
C18_WitnessDropped ==
    /\ resolved.copy = "shared"
    /\ path = KeyPath(<<"channels">>)
    /\ rootValue # O(<<>>)
    /\ Len(Applicable) = 1
    /\ Applicable[1].relation = S("risk")
    /\ Applicable[1].when = U
    /\ Applicable[1].targetPath = S("channels.*.dm.allowFrom")
    /\ resolved.impacts = <<>>

(***************************************************************************)
(* Impacts that omit their conditions.  The hint of the field holds the    *)
(* impact as it is written ("stated") and the same impact with every       *)
(* omitted condition written out ("explicit").                             *)
(***************************************************************************)
CheckNames ==
    {S("truthy"), S("falsy"), S("defined"), S("notDefined"), S("equals"),
     S("notEquals"), S("includes")}

StatedImpacts ==
    {[NoImpact EXCEPT
        !.relation = r, !.when = when, !.whenValue = whenValue, !.targetPath = tp,
        !.targetWhen = targetWhen, !.targetValue = targetValue,
        !.message = S("stated")] :
        r \in Relations,
        when \in {U, S("falsy"), S("notEquals"), S("matches")},
        whenValue \in {U, Null, S("open")},
        tp \in {U, S("channels.*.dm.allowFrom")},
        targetWhen \in {U, S("includes"), S("matches")},
        targetValue \in {U, S("*")}}

\* the impact with its omitted conditions written out
Explicit(impact) ==
    [impact EXCEPT
        !.relation = IF impact.relation = U THEN S("requires") ELSE impact.relation,
        !.when = IF impact.when # U THEN impact.when
                 ELSE IF impact.whenValue # U THEN S("equals")
                 ELSE S("truthy"),
        !.targetWhen = IF impact.targetWhen # U THEN impact.targetWhen
                       ELSE IF impact.targetValue # U THEN S("equals")
                       ELSE S("truthy"),
        !.message = S("explicit")]

CheckRoots ==
    {O(<<>>)} \cup
    {Config(policy, allowFrom, TRUE) :
        policy \in {U, Null, S("open"), S("closed")},
        allowFrom \in {U, S("*"), A(<<S("*")>>)}}

InitChecks ==
    /\ path = KeyPath(<<"channels", "discord", "dm", "policy">>)
    /\ rootValue \in CheckRoots
    /\ \E impact \in StatedImpacts :
            hints = << <<pathKey(path),
                         [NoHint EXCEPT !.impacts = A(<<impact, Explicit(impact)>>)]>> >>
    /\ resolved = NotResolved
    /\ schema = NoSchema
    /\ unsupported = {}
    /\ disabled = FALSE
    /\ view = <<>>
    /\ event = [kind |-> "none"]
    /\ patches = <<>>
    /\ call = NoCall

SpecChecks == InitChecks /\ [][NextResolve]_vars

\* the entries the call returned for the impact of that message
ReportedAs(message) ==
    {k \in 1..Len(resolved.impacts) : resolved.impacts[k].message = S(message)}

\* the impact as the backend wrote it
StatedImpact == hints[1][2].impacts.v[1]

\* C19: an impact that omits `when`, `targetWhen` or `relation` is reported
\* exactly when the same impact with "equals" (its value defined) or "truthy"
\* written for the omitted check and "requires" for the omitted relation is
\* reported, and under the same relation; a check name that is not one of the
\* seven known names evaluates to false: as a source check it keeps the impact
\* from being reported, as a target check it keeps a conflict from being
\* reported and lets a requirement whose source check holds be reported.
C19_DefaultChecks ==
    Resolved =>
        /\ ReportedAs("stated") # {} <=> ReportedAs("explicit") # {}
        /\ \A k \in ReportedAs("stated"), l \in ReportedAs("explicit") :
                /\ resolved.impacts[k].relation = resolved.impacts[l].relation
                /\ StatedImpact.relation = U =>
                        resolved.impacts[k].relation = S("requires")
        /\ (StatedImpact.when # U /\ StatedImpact.when \notin CheckNames) =>
                ReportedAs("stated") = {}
        /\ (/\ StatedImpact.targetPath # U
            /\ StatedImpact.targetWhen # U
            /\ StatedImpact.targetWhen \notin CheckNames) =>
                /\ StatedImpact.relation = S("conflicts") => ReportedAs("stated") = {}
                /\ (/\ StatedImpact.relation \in {U, S("requires")}
                    /\ StatedImpact.when = S("falsy")
                    /\ ~Truthy(ValueAt(rootValue, path)))
                        => ReportedAs("stated") # {}

\* C19 witness: an impact with nothing but whenValue, targetPath and
\* targetValue is reported as a requirement: the policy equals whenValue and
\* allowFrom does not equal targetValue.
C19_Witness ==
    /\ resolved.copy = "shared"
    /\ StatedImpact.relation = U
    /\ StatedImpact.when = U
    /\ StatedImpact.whenValue = S("open")
    /\ StatedImpact.targetPath # U
    /\ StatedImpact.targetWhen = U
    /\ StatedImpact.targetValue = S("*")
    /\ ReportedAs("stated") # {}
    /\ ReportedAs("explicit") # {}
    /\ \A k \in ReportedAs("stated") : resolved.impacts[k].relation = S("requires")

\* C19 witness: a risk whose source check has an unknown name is not reported.
C19_WitnessUnknown ==
    /\ Resolved
    /\ StatedImpact.relation = S("risk")
    /\ StatedImpact.when = S("matches")
    /\ rootValue # O(<<>>)
    /\ resolved.impacts = <<>>

(***************************************************************************)
(* The order of the fields of an object: one section of toggles, its       *)
(* schema and its value written with their keys in every order.            *)
(***************************************************************************)
PanelNames == {"beta", "Alpha", "alpha", "gamma", "delta"}

\* the lists that hold each name once
Orderings(names) ==
    {keys \in [1..Cardinality(names) -> names] :
        \A i, j \in DOMAIN keys : i # j => keys[i] # keys[j]}

PanelSchemas ==
    {ObjectOf([i \in DOMAIN keys |-> <<keys[i], Typed("boolean")>>]) :
        keys \in Orderings(PanelNames)}

PanelValues ==
    {O(<<>>),
     O(<< <<"panel", O(<< <<"gamma", B(TRUE)>>, <<"alpha", B(FALSE)>>,
                         <<"beta", B(TRUE)>> >>)>> >>),
     O(<< <<"panel", O(<< <<"beta", B(TRUE)>>, <<"alpha", B(FALSE)>>,
                         <<"gamma", B(TRUE)>> >>)>> >>)}

\* hints with orders: none; a negative order and a tie; a wildcard order with
\* an exact hint that has an order and one that has none; orders with groups
OrderHints ==
    {<<>>,
     << <<"panel.gamma", [NoHint EXCEPT !.order = Num(1)]>>,
        <<"panel.beta", [NoHint EXCEPT !.order = Num(-1)]>>,
        <<"panel.delta", [NoHint EXCEPT !.order = Num(1)]>> >>,
     << <<"panel.*", [NoHint EXCEPT !.order = Num(2)]>>,
        <<"panel.alpha", [NoHint EXCEPT !.order = Num(3)]>>,
        <<"panel.Alpha", [NoHint EXCEPT !.label = S("First")]>> >>,
     << <<"panel.beta", [NoHint EXCEPT !.group = S("Net"), !.order = Num(5)]>>,
        <<"panel.gamma", [NoHint EXCEPT !.group = S("Net")]>>,
        <<"panel.delta", [NoHint EXCEPT !.advanced = B(TRUE), !.order = Num(-2)]>> >>}

InitOrder ==
    /\ path = <<K("panel")>>
    /\ schema \in PanelSchemas
    /\ rootValue \in PanelValues
    /\ hints \in OrderHints
    /\ unsupported = {}
    /\ disabled = FALSE
    /\ view = <<>>
    /\ event = [kind |-> "none"]
    /\ patches = <<>>
    /\ resolved = NotResolved
    /\ call = NoCall

NextOrder == Render \/ ChangeToggle

SpecOrder == InitOrder /\ [][NextOrder]_vars

\* the order value of a property: that of its hint, 0 without one
OrderValueOf(name) ==
    LET hint == hintForPath(path \o <<K(name)>>, hints)
    IN  IF hint = U THEN 0 ELSE IF hint.order = U THEN 0 ELSE hint.order.v

\* the property stands before the other: by order value, then by name
StandsBefore(a, b) ==
    \/ OrderValueOf(a) < OrderValueOf(b)
    \/ OrderValueOf(a) = OrderValueOf(b) /\ localeCompare(a, b) < 0

\* C20: the fields of an object stand by the order value of their hints
\* ascending, a missing one counting as 0, and by name among equal order
\* values; of two properties exactly one stands before the other, so the
\* order is fixed by the names and the hints, whatever the order of the keys
\* in the schema and in the value.  (Fields are compared within their group;
\* groups stand in the order of their first fields.)
C20_SortedByOrder ==
    JustRendered =>
        /\ \A a, b \in PropertyNames : a # b => (StandsBefore(a, b) <=> ~StandsBefore(b, a))
        /\ \A a, b, c \in PropertyNames :
                (StandsBefore(a, b) /\ StandsBefore(b, c)) => StandsBefore(a, c)
        /\ \A a, b \in PropertyNames :
                (StandsBefore(a, b) /\ HeaderOf(a) = HeaderOf(b)) =>
                    FieldStart(a) < FieldStart(b)
        /\ \A g, h \in GroupHeaders :
                g < h =>
                    \E a \in PropertyNames :
                        /\ HeaderOf(a) = g
                        /\ \A b \in PropertyNames : HeaderOf(b) = h => StandsBefore(a, b)

\* C20 witness: a schema that lists its keys in descending order is rendered
\* with the negative order first, then the names without order (lower case
\* before upper case), then the two fields of order 1 by name.
C20_Witness ==
    /\ JustRendered
    /\ path = <<K("panel")>>
    /\ schema.properties.v[1][1] = "gamma"
    /\ schema.properties.v[2][1] = "delta"
    /\ schema.properties.v[3][1] = "beta"
    /\ OrderValueOf("beta") = -1
    /\ OrderValueOf("gamma") = 1
    /\ GroupHeaders = {}
    /\ FieldStart("beta") < FieldStart("alpha")
    /\ FieldStart("alpha") < FieldStart("Alpha")
    /\ FieldStart("Alpha") < FieldStart("delta")
    /\ FieldStart("delta") < FieldStart("gamma")

\* C20 witness: under a wildcard order an exact hint without order counts as
\* 0 and stands first.
C20_WitnessMissingOrder ==
    /\ JustRendered
    /\ path = <<K("panel")>>
    /\ OrderValueOf("beta") = 2
    /\ OrderValueOf("Alpha") = 0
    /\ \A a \in PropertyNames \ {"Alpha"} : FieldStart("Alpha") < FieldStart(a)
    /\ \A a \in PropertyNames \ {"alpha"} : FieldStart(a) < FieldStart("alpha")

====
